---- MODULE Spec2Model ----
(***************************************************************************)
(* A model of the animatronic head controller of AIRobotAssistant:         *)
(*   - AudioMouthController (src/src/audio_mouth_controller.py): the       *)
(*     amplitude envelope tracker and the viseme ladder;                   *)
(*   - EyeController (src/src/eye_controller.py) over the rig catalog of   *)
(*     src/src/servo_config.py;                                            *)
(*   - the loops of src/src/voice_assistant_server.py that share the jaw   *)
(*     servo, jaw_position, is_speaking and SERVO_AVAILABLE.               *)
(*                                                                         *)
(* Number representation.  The code computes in floating point.  Here      *)
(*   - a normalized amplitude (rms / 32768, in [0,1]) is an integer number *)
(*     of thousandths, and NaN (the amplitude of an empty chunk) is -1;    *)
(*   - a mouth opening (percent, in [0,100]) is an integer number of       *)
(*     tenths of a percent;                                                *)
(*   - a servo angle (degrees) is an integer number of tenths of a degree. *)
(* Products with the speeds 0.7 and 0.4 are rounded towards zero.          *)
(***************************************************************************)
EXTENDS Integers, Sequences, FiniteSets, TLC

VARIABLES
    audio_mouth_controller, \* the AudioMouthController object (a record of its fields)
    opening,                \* the value last returned by process_audio_chunk
    prev_opening,           \* current_opening before the last tracker call (history variable)
    viseme,                 \* the value last returned by get_viseme_from_opening
    last_call,              \* which tracker method ran last (history variable)
    servo,                  \* servo_kit.servo[ch].angle: the angle last written to each channel
    last_write,             \* the last write attempted on the servo bus (history variable)
    write_failures,         \* how many writes have raised so far (history variable)
    eye_controller,         \* the EyeController object (a record of its fields)
    eye_op,                 \* the last EyeController call and its arguments (history variable)
    SERVO_AVAILABLE,        \* the process-wide servo-available flag
    settings,               \* the settings dict (the keys the loops read)
    stored_settings,        \* the settings document on disk
    jaw_position,           \* the tracked jaw position, an opening
    jaw_req,                \* the last control_jaw_servo_direct call (history variable)
    is_running,             \* the voice assistant is asked to run
    is_speaking,            \* the assistant is currently speaking
    fired_since_speech,     \* a watchdog has fired since a chunk last set is_speaking (history variable)
    audio_stale,            \* time.time() - last_audio_time > 0.5
    sess,                   \* per started session: where run_voice_assistant and its
                            \* monitor_speech_end thread are
    face_tracking_enabled,  \* the face tracking flag
    face_tracker,           \* "none" (None), or a FaceTracker with its camera "open" or "closed"
    face_tracking_thread,   \* the face tracking thread has been started
    disconnect_seen,        \* a write has raised a disconnection-shaped error (history variable)
    chunks,                 \* how many audio chunks have arrived (history variable)
    commands,               \* how many commands have been processed (history variable)
    face_tracking_status,   \* the last start or stop of face tracking and the status shown
    face_loop,              \* where the face tracking thread is in its iteration
    last_face_position,     \* FaceTracker: the centre of the last face found
    face_lost_time,         \* FaceTracker: when the face was lost
    current_time,           \* time.time() at the last track_face call
    tracking_data,          \* what the last track_face call returned
    servo_config_name,      \* the name passed to get_config
    servo_config,           \* the rig get_config returned
    faces,                  \* the detections passed to get_closest_face
    closest_face,           \* the value get_closest_face returned
    last_blink_time,        \* EyeController: time.time() at the last blink
    blink_op,               \* the last blink_eyes call: its inputs and what it did
    open_cameras,           \* how many camera handles are open
    mouth_queue,            \* mouth_visualizer: the queue of control commands
    received,               \* the control messages handle_control got (history variable)
    handled,                \* the commands the command loop took off the queue (history variable)
    command_loop            \* where process_control_commands is in its iteration

trackerVars == <<audio_mouth_controller, opening, prev_opening, viseme, last_call>>

busVars == <<servo, last_write, write_failures>>

eyeVars == <<eye_controller, eye_op>>

jawVars == <<SERVO_AVAILABLE, settings, stored_settings, jaw_position, jaw_req>>

detectorVars == <<faces, closest_face>>

catalogVars == <<servo_config_name, servo_config>>

lossVars == <<last_face_position, face_lost_time, current_time, tracking_data>>

blinkVars == <<last_blink_time, blink_op>>

controlVars == <<mouth_queue, received, handled, command_loop>>

\* process_control_commands about to call get_control_command: pc is where
\* the loop is, got what the last call returned, and the rest the sweep in
\* progress, if any.
Polling ==
    [pc |-> "poll", got |-> "init", n |-> 0, channel |-> 0, min_angle |-> 0,
     max_angle |-> 0, center_angle |-> 0]

\* mouth_visualizer.py line 22: mouth_queue = queue.Queue(); nothing received,
\* nothing handled, the command loop about to poll.
ControlInit ==
    /\ mouth_queue = <<>>
    /\ received = <<>>
    /\ handled = <<>>
    /\ command_loop = Polling

\* The face tracking state, which the control path leaves alone while face
\* tracking is off.
controlRest == <<face_tracking_enabled, face_tracker, open_cameras, face_tracking_thread,
                 face_loop, face_tracking_status, detectorVars, catalogVars, blinkVars,
                 lossVars>>

serverVars == <<is_running, is_speaking, fired_since_speech, audio_stale, sess, face_tracking_enabled,
                face_tracker, open_cameras, face_tracking_thread, disconnect_seen, chunks, commands,
                face_loop, face_tracking_status, detectorVars, catalogVars, blinkVars, controlVars, lossVars>>

vars == <<audio_mouth_controller, opening, prev_opening, viseme, last_call,
          servo, last_write, write_failures, eye_controller, eye_op,
          SERVO_AVAILABLE, settings, stored_settings, jaw_position, jaw_req,
          is_running, is_speaking, fired_since_speech, audio_stale, sess, face_tracking_enabled,
          face_tracker, open_cameras, face_tracking_thread, disconnect_seen, chunks, commands,
          face_loop, face_tracking_status, faces, closest_face, servo_config_name,
          servo_config, last_face_position, face_lost_time, current_time,
          tracking_data, last_blink_time, blink_op, mouth_queue,
          received, handled, command_loop>>

----------------------------------------------------------------------------
(* Arithmetic helpers *)

Min(a, b) == IF a < b THEN a ELSE b

Max(a, b) == IF a > b THEN a ELSE b

Abs(a) == IF a < 0 THEN -a ELSE a

\* Python's a * (p / q) on non-negative or negative a, rounded towards zero.
MulDiv(a, p, q) == IF a >= 0 THEN (a * p) \div q ELSE -(((-a) * p) \div q)

RECURSIVE SeqSum(_)
SeqSum(s) == IF s = <<>> THEN 0 ELSE Head(s) + SeqSum(Tail(s))

----------------------------------------------------------------------------
(* AudioMouthController: src/src/audio_mouth_controller.py *)

\* Opening units (tenths of a percent) of p percent.
Percent(p) == p * 10

\* The amplitude of an empty chunk: np.mean of an empty array is nan.
NaN == -1

\* Constructor arguments as the server passes them (thousandths).
smoothing_window == 3

min_threshold == 15

max_threshold == 250

\* close_speed = 0.7 and the literal opening speed 0.4, in tenths.
close_speed == 7

open_speed == 4

\* (k/20) ** 0.8 * 100 in opening units, for k = 0..20: the power curve of
\* line 87 sampled at twentieths of the normalized amplitude.
PowerCurve ==
    <<0, 91, 158, 219, 276, 330, 382, 432, 480, 528, 574,
      620, 665, 708, 752, 794, 837, 878, 919, 960, 1000>>

\* __init__: the state of a newly constructed tracker.
NewController ==
    [amplitude_history |-> <<>>,
     current_opening   |-> 0,
     target_opening    |-> 0,
     is_speaking       |-> FALSE,
     silence_counter   |-> 0]

\* deque(maxlen = smoothing_window).append
DequeAppend(h, a) ==
    IF Len(h) < smoothing_window THEN Append(h, a) ELSE Append(Tail(h), a)

HasNaN(h) == \E i \in 1..Len(h) : h[i] = NaN

\* smoothed_amplitude < min_threshold, with smoothed = mean(h); any
\* comparison with nan is False.
BelowThreshold(h) == ~HasNaN(h) /\ SeqSum(h) < min_threshold * Len(h)

\* TargetOf without the clamp of line 83: beyond the sampled curve the target
\* keeps growing.
TargetOfUnclamped(h) ==
    IF HasNaN(h) THEN Percent(100)
    ELSE LET num == SeqSum(h) - min_threshold * Len(h)
             den == (max_threshold - min_threshold) * Len(h)
             k   == (20 * num) \div den
         IN  IF k <= 20 THEN PowerCurve[k + 1] ELSE PowerCurve[21] + 40 * (k - 20)

\* Lines 82-87: normalized = max(0, min(1, (s - min) / (max - min))) and
\* target = normalized ** 0.8 * 100.  min(1, nan) is 1 in Python, so a nan
\* amplitude in the window gives the full target.
TargetOf(h) ==
    IF HasNaN(h) THEN Percent(100)
    ELSE LET num == SeqSum(h) - min_threshold * Len(h)
             den == (max_threshold - min_threshold) * Len(h)
             k   == Max(0, Min(20, (20 * num) \div den))
         IN  PowerCurve[k + 1]

\* The forced close of lines 103-104.
ForceCloseBug(silence) == silence > 3

ForceClose(silence) == silence > 2

\* Lines 92-100 for a tracker constructed with close_speed = speed tenths.
EaseWith(cur, tgt, speed) ==
    IF tgt < cur
    THEN Max(tgt, cur - MulDiv(cur - tgt, speed, 10))
    ELSE Min(tgt, cur + MulDiv(tgt - cur, open_speed, 10))

\* An easing that moves by 1.2 of the gap, without the max and min.
EaseOvershoot(cur, tgt) ==
    IF tgt < cur
    THEN cur - MulDiv(cur - tgt, 12, 10)
    ELSE cur + MulDiv(tgt - cur, 12, 10)

\* An easing that opens by 0.2 of the gap.
EaseSlowOpen(cur, tgt) ==
    IF tgt < cur
    THEN Max(tgt, cur - MulDiv(cur - tgt, close_speed, 10))
    ELSE Min(tgt, cur + MulDiv(tgt - cur, 2, 10))

\* An easing that closes by 0.3 of the gap.
EaseSlowClose(cur, tgt) ==
    IF tgt < cur
    THEN Max(tgt, cur - MulDiv(cur - tgt, 3, 10))
    ELSE Min(tgt, cur + MulDiv(tgt - cur, open_speed, 10))

\* Lines 92-100: asymmetric easing of current towards target.
Ease(cur, tgt) ==
    IF tgt < cur
    THEN Max(tgt, cur - MulDiv(cur - tgt, close_speed, 10))
    ELSE Min(tgt, cur + MulDiv(tgt - cur, open_speed, 10))

\* process_audio_chunk: the tracker after a chunk of normalized amplitude a;
\* the value returned is the new current_opening.
ProcessAudioChunk(c, a) ==
    LET h      == DequeAppend(c.amplitude_history, a)
        silent == BelowThreshold(h)
        tgt    == IF silent THEN 0 ELSE TargetOf(h)
        sc     == IF silent THEN c.silence_counter + 1 ELSE 0
        eased  == Ease(c.current_opening, tgt)
    IN  [amplitude_history |-> h,
         current_opening   |-> IF ForceClose(sc) THEN 0 ELSE eased,
         target_opening    |-> tgt,
         is_speaking       |-> IF silent THEN FALSE ELSE tgt > Percent(3),
         silence_counter   |-> sc]

\* get_viseme_from_opening with every boundary in the lower category.
VisemeBoundaryLow(o) ==
    IF o <= Percent(5) THEN "CLOSED"
    ELSE IF o <= Percent(20) THEN "NARROW"
    ELSE IF o <= Percent(35) THEN "ROUNDED"
    ELSE IF o <= Percent(50) THEN "MEDIUM"
    ELSE IF o <= Percent(70) THEN "MEDIUM_OPEN"
    ELSE "WIDE"

\* get_viseme_from_opening
get_viseme_from_opening(o) ==
    IF o < Percent(5) THEN "CLOSED"
    ELSE IF o < Percent(20) THEN "NARROW"
    ELSE IF o < Percent(35) THEN "ROUNDED"
    ELSE IF o < Percent(50) THEN "MEDIUM"
    ELSE IF o < Percent(70) THEN "MEDIUM_OPEN"
    ELSE "WIDE"

\* A variant of the adjustment without min(100, opening) after the increase.
FrequencyAdjustUnclamped(o, band) ==
    IF band = "high" THEN MulDiv(o, 7, 10)
    ELSE IF band = "mid" THEN MulDiv(o, 12, 10)
    ELSE o

\* Lines 185-189 of process_audio_chunk_enhanced: band is "high" when
\* high_energy > mid_energy * 1.5, "mid" when mid_energy > high_energy * 1.5,
\* "none" otherwise and for an empty chunk.
FrequencyAdjust(o, band) ==
    IF band = "high" THEN MulDiv(o, 7, 10)
    ELSE IF band = "mid" THEN Min(Percent(100), MulDiv(o, 12, 10))
    ELSE o

\* The bands that may dominate a chunk of amplitude a: none of them in an
\* empty chunk (whose mean is NaN) or in one of zeros (whose spectrum is 0).
BandsOf(a) == IF a = NaN \/ a = 0 THEN {"none"} ELSE {"none", "mid", "high"}

\* reset that leaves the sliding window as it is.
ResetKeepsWindow(c) ==
    [amplitude_history |-> c.amplitude_history,
     current_opening   |-> 0,
     target_opening    |-> 0,
     is_speaking       |-> FALSE,
     silence_counter   |-> 0]

\* reset
ResetController(c) ==
    [amplitude_history |-> <<>>,
     current_opening   |-> 0,
     target_opening    |-> 0,
     is_speaking       |-> FALSE,
     silence_counter   |-> 0]

----------------------------------------------------------------------------
(* The servo bus: servo_kit.servo[channel].angle = value *)

\* Angle units (tenths of a degree) of d degrees.
Deg(d) == d * 10

\* A channel that has not been written since startup; an axis that is not in
\* the current_angles dict.
NoAngle == -1

\* JAW_CHANNEL
JAW_CHANNEL == 8

\* ServoKit(channels=16): the channels the program uses are 0..7 and the jaw.
Channels == 0..JAW_CHANNEL

\* The outcome of one write: it succeeds, raises a disconnection-shaped
\* error ("No such device" / "disconnected"), or raises another error.
WriteOutcomes == {"ok", "disconnected", "error"}

NoWrite == [seq |-> 0, by |-> "none", ch |-> 0, outcome |-> "ok"]

\* The record of an attempt to write `angle`: who wrote, the channel and the
\* outcome (the angle of a successful write is in `servo`); seq alternates
\* so that two equal writes in a row are still seen as two.
WriteRecord(by, ch, angle, outcome) ==
    [seq |-> 1 - last_write.seq, by |-> by, ch |-> ch, outcome |-> outcome]

\* The most writes that raise in one run.
MaxFailures == 1

\* A write may have `outcome`: a failure only while the run has failures left.
MayFail(outcome) == outcome = "ok" \/ write_failures < MaxFailures

Failed(outcome) == IF outcome = "ok" THEN 0 ELSE 1

BusInit ==
    /\ servo = [ch \in Channels |-> NoAngle]
    /\ last_write = NoWrite
    /\ write_failures = 0

----------------------------------------------------------------------------
(* The rig catalog: src/src/servo_config.py.  Angles in degrees. *)

InMoovHeadConfig ==
    [name |-> "InMoov Head",
     order |-> <<"left_eye_x", "left_eye_y", "left_upper_lid", "left_lower_lid",
                 "right_eye_x", "right_eye_y", "right_upper_lid", "right_lower_lid">>,
     channels |-> [left_eye_x |-> 0, left_eye_y |-> 1, left_upper_lid |-> 2,
                   left_lower_lid |-> 3, right_eye_x |-> 4, right_eye_y |-> 5,
                   right_upper_lid |-> 6, right_lower_lid |-> 7],
     default_angles |-> [left_eye_x |-> 90, left_eye_y |-> 90, left_upper_lid |-> 70,
                         left_lower_lid |-> 100, right_eye_x |-> 90, right_eye_y |-> 90,
                         right_upper_lid |-> 120, right_lower_lid |-> 90],
     angle_ranges |-> [left_eye_x |-> <<57, 145>>, left_eye_y |-> <<52, 112>>,
                       left_upper_lid |-> <<70, 180>>, left_lower_lid |-> <<10, 100>>,
                       right_eye_x |-> <<57, 145>>, right_eye_y |-> <<52, 112>>,
                       right_upper_lid |-> <<10, 120>>, right_lower_lid |-> <<90, 180>>],
     blink_order |-> <<"left_upper_lid", "left_lower_lid", "right_upper_lid",
                       "right_lower_lid">>,
     blink_angles |-> [left_upper_lid |-> 180, left_lower_lid |-> 10,
                       right_upper_lid |-> 10, right_lower_lid |-> 180]]

OriginalConfig ==
    [name |-> "Original (Shared Axes)",
     order |-> <<"eyes_x", "eyes_y", "left_upper_lid", "right_upper_lid",
                 "left_lower_lid", "right_lower_lid">>,
     channels |-> [eyes_x |-> 0, eyes_y |-> 1, left_upper_lid |-> 2,
                   right_upper_lid |-> 3, left_lower_lid |-> 4, right_lower_lid |-> 5],
     default_angles |-> [eyes_x |-> 100, eyes_y |-> 80, left_upper_lid |-> 70,
                         right_upper_lid |-> 120, left_lower_lid |-> 100,
                         right_lower_lid |-> 90],
     angle_ranges |-> [eyes_x |-> <<57, 145>>, eyes_y |-> <<52, 112>>,
                       left_upper_lid |-> <<70, 180>>, right_upper_lid |-> <<10, 120>>,
                       left_lower_lid |-> <<10, 100>>, right_lower_lid |-> <<90, 180>>],
     blink_order |-> <<"left_upper_lid", "right_upper_lid", "left_lower_lid",
                       "right_lower_lid">>,
     blink_angles |-> [left_upper_lid |-> 180, right_upper_lid |-> 10,
                       left_lower_lid |-> 10, right_lower_lid |-> 180]]

\* SimpleConfig declares no blink_angles attribute at all.
SimpleConfig ==
    [name |-> "Simple (X/Y Only)",
     order |-> <<"eyes_x", "eyes_y">>,
     channels |-> [eyes_x |-> 0, eyes_y |-> 1],
     default_angles |-> [eyes_x |-> 90, eyes_y |-> 90],
     angle_ranges |-> [eyes_x |-> <<0, 180>>, eyes_y |-> <<0, 180>>],
     blink_order |-> <<>>,
     blink_angles |-> <<>>]

\* CONFIGS, by catalog key.
CONFIGS == [inmoov |-> InMoovHeadConfig, original |-> OriginalConfig,
            simple |-> SimpleConfig]

\* The catalog keys, letter by letter.
Spelling ==
    [inmoov   |-> <<"i", "n", "m", "o", "o", "v">>,
     original |-> <<"o", "r", "i", "g", "i", "n", "a", "l">>,
     simple   |-> <<"s", "i", "m", "p", "l", "e">>]

\* str.lower on one character: the capital letters become small, every
\* other character is kept.
LowerOf ==
    [A |-> "a", E |-> "e", G |-> "g", H |-> "h", I |-> "i", L |-> "l", M |-> "m",
     N |-> "n", O |-> "o", P |-> "p", R |-> "r", S |-> "s", V |-> "v", X |-> "x"]

Lower(c) == IF c \in DOMAIN LowerOf THEN LowerOf[c] ELSE c

\* config_name.lower()
lower(name) == [i \in 1..Len(name) |-> Lower(name[i])]

\* CONFIGS.get(key): the key of the catalog spelled key, "" for None.
CatalogKey(key) ==
    IF \E k \in DOMAIN CONFIGS : Spelling[k] = key
    THEN CHOOSE k \in DOMAIN CONFIGS : Spelling[k] = key
    ELSE ""

\* get_config that looks the name up as it is given.
get_config_as_given(name) ==
    IF CatalogKey(name) = "" THEN InMoovHeadConfig ELSE CONFIGS[CatalogKey(name)]

\* get_config (lines 181-196)
get_config(name) ==
    IF CatalogKey(lower(name)) = "" THEN InMoovHeadConfig
    ELSE CONFIGS[CatalogKey(lower(name))]

\* No call of get_config has been made.
NotLoaded == [name |-> "none"]

CatalogInit ==
    /\ servo_config_name = <<>>
    /\ servo_config = NotLoaded

\* Every axis name the catalog or the controller mentions.
ServoNames ==
    {"left_eye_x", "left_eye_y", "left_upper_lid", "left_lower_lid",
     "right_eye_x", "right_eye_y", "right_upper_lid", "right_lower_lid",
     "eyes_x", "eyes_y", "eye_x", "eye_y"}

\* `name in self.config.channels`
HasChannel(cfg, n) == n \in DOMAIN cfg.channels

\* get_channel: only used here on names that HasChannel.
\* A lookup that puts the right eye on the channels of the left one.
get_channel_shared(cfg, n) == cfg.channels[n] % 4

get_channel(cfg, n) == cfg.channels[n]

\* get_default_angle
get_default_angle(cfg, n) ==
    IF n \in DOMAIN cfg.default_angles THEN Deg(cfg.default_angles[n]) ELSE Deg(90)

\* get_angle_range
get_angle_range(cfg, n) ==
    IF n \in DOMAIN cfg.angle_ranges
    THEN <<Deg(cfg.angle_ranges[n][1]), Deg(cfg.angle_ranges[n][2])>>
    ELSE <<Deg(0), Deg(180)>>

----------------------------------------------------------------------------
(* EyeController: src/src/eye_controller.py *)

\* map_value with the output range swapped (no inversion where the code
\* inverts, and the reverse).
map_value_swapped(value, in_min, in_max, out_min, out_max) ==
    ((value - in_min) * (out_min - out_max)) \div (in_max - in_min) + out_max

\* map_value
map_value(value, in_min, in_max, out_min, out_max) ==
    ((value - in_min) * (out_max - out_min)) \div (in_max - in_min) + out_min

\* The alignment offsets of __init__, in degrees.
right_eye_x_offset == 0

right_eye_y_offset == 10

\* max(lo, min(hi, a))
Clamp(lo, hi, a) == Max(lo, Min(hi, a))

\* __init__
NewEyeController(config_name) ==
    [config |-> config_name,
     current_angles |-> [n \in ServoNames |-> NoAngle]]

Config(ec) == CONFIGS[ec.config]

OneIf(cond, item) == IF cond THEN <<item>> ELSE <<>>

\* Lines 134-175 of track_position: angles_to_set, in insertion order.
angles_to_set(cfg, face_x, face_y, frame_width, frame_height) ==
    LET lx == get_angle_range(cfg, "left_eye_x")
        ly == get_angle_range(cfg, "left_eye_y")
        rx == get_angle_range(cfg, "right_eye_x")
        ry == get_angle_range(cfg, "right_eye_y")
        sx == get_angle_range(cfg, "eye_x")
        sy == get_angle_range(cfg, "eye_y")
    IN  OneIf(HasChannel(cfg, "left_eye_x"),
              [name |-> "left_eye_x",
               angle |-> map_value(face_x, 0, frame_width, lx[2], lx[1])])
        \o OneIf(HasChannel(cfg, "left_eye_y"),
              [name |-> "left_eye_y",
               angle |-> map_value(face_y, 0, frame_height, ly[1], ly[2])])
        \o OneIf(HasChannel(cfg, "right_eye_x"),
              [name |-> "right_eye_x",
               angle |-> Clamp(rx[1], rx[2],
                            map_value(face_x, 0, frame_width, rx[2], rx[1])
                            + Deg(right_eye_x_offset))])
        \o OneIf(HasChannel(cfg, "right_eye_y"),
              [name |-> "right_eye_y",
               angle |-> Clamp(ry[1], ry[2],
                            map_value(face_y, 0, frame_height, ry[2], ry[1])
                            + Deg(right_eye_y_offset))])
        \o OneIf(HasChannel(cfg, "eye_x"),
              [name |-> "eye_x",
               angle |-> map_value(face_x, 0, frame_width, sx[2], sx[1])])
        \o OneIf(HasChannel(cfg, "eye_y"),
              [name |-> "eye_y",
               angle |-> map_value(face_y, 0, frame_height, sy[2], sy[1])])

\* The angle the batch loop of lines 178-184 writes for entry e.
BatchAngle(cfg, e) ==
    LET r == get_angle_range(cfg, e.name) IN Clamp(r[1], r[2], e.angle)

\* Lines 178-184: the first `done` entries of the batch have been written and
\* recorded.
BatchServo(cfg, batch, done, sv) ==
    [ch \in Channels |->
        IF \E i \in 1..done : get_channel(cfg, batch[i].name) = ch
        THEN LET i == CHOOSE j \in 1..done : get_channel(cfg, batch[j].name) = ch
             IN  BatchAngle(cfg, batch[i])
        ELSE sv[ch]]

BatchAngles(cfg, batch, done, ca) ==
    [n \in ServoNames |->
        IF \E i \in 1..done : batch[i].name = n
        THEN LET i == CHOOSE j \in 1..done : batch[j].name = n
             IN  BatchAngle(cfg, batch[i])
        ELSE ca[n]]

\* Frames are 640 x 480 (FaceTracker.start_camera).
frame_width == 640

frame_height == 480

\* Face centers fed to the controller: the frame edges and the centre.
FaceXs == {0, 320, 640}

FaceYs == {0, 240, 480}

\* track_position(face_x, face_y, frame_width, frame_height).  The batch loop
\* runs inside the method's try: the write number fail_at (0: none) raises
\* with the given outcome, and the except clause ends the method there.
TrackPosition(by, face_x, face_y, fail_at, outcome) ==
    LET cfg   == Config(eye_controller)
        batch == angles_to_set(cfg, face_x, face_y, frame_width, frame_height)
        done  == IF fail_at = 0 THEN Len(batch) ELSE fail_at - 1
        last  == IF fail_at = 0 THEN Len(batch) ELSE fail_at
    IN  /\ fail_at \in 0..Len(batch)
        /\ (fail_at = 0) = (outcome = "ok")
        /\ MayFail(outcome)
        /\ write_failures' = write_failures + Failed(outcome)
        /\ servo' = BatchServo(cfg, batch, done, servo)
        /\ eye_controller' =
             [eye_controller EXCEPT
                !.current_angles = BatchAngles(cfg, batch, done, @)]
        /\ last_write' =
             IF last = 0 THEN last_write
             ELSE WriteRecord(by, get_channel(cfg, batch[last].name),
                              BatchAngle(cfg, batch[last]), outcome)
        /\ eye_op' = [op |-> "track", face_x |-> face_x, face_y |-> face_y,
                      fail_at |-> fail_at]

\* set_servo_angle for each name of `names` (a sequence), the writes to the
\* names in `failed` raising: each call has its own try, so the others go on.
SetServoAngles(cfg, names, target, failed, sv, ca) ==
    LET ok(n) == HasChannel(cfg, n) /\ n \notin failed
        ang(n) == LET r == get_angle_range(cfg, n) IN Clamp(r[1], r[2], target[n])
    IN  [servo |-> [ch \in Channels |->
                      IF \E i \in 1..Len(names) :
                            ok(names[i]) /\ get_channel(cfg, names[i]) = ch
                      THEN LET i == CHOOSE j \in 1..Len(names) :
                                      ok(names[j]) /\ get_channel(cfg, names[j]) = ch
                           IN  ang(names[i])
                      ELSE sv[ch]],
         current_angles |-> [n \in ServoNames |->
                      IF (\E i \in 1..Len(names) : names[i] = n) /\ ok(n)
                      THEN ang(n) ELSE ca[n]]]

\* The default angle of every channel of the rig.
DefaultAngles(cfg) == [n \in DOMAIN cfg.channels |-> get_default_angle(cfg, n)]

\* The subsets of S of at most k elements.
RECURSIVE SubsetsUpTo(_, _)
SubsetsUpTo(S, k) ==
    IF k <= 0 THEN {{}}
    ELSE LET P == SubsetsUpTo(S, k - 1) IN P \cup {p \cup {x} : p \in P, x \in S}

\* The sets of writes of one call, among those to `names`, that may raise: as
\* many as the run has failures left.
FailSets(names) == SubsetsUpTo(names, MaxFailures - write_failures)

\* center_eyes on the controller ec: the bus after it, the writes to the
\* names in `failed` raising with `outcome`.
CenterBus(ec, by, failed, outcome) ==
    LET cfg == Config(ec)
        names == cfg.order
        target == DefaultAngles(cfg)
        r == SetServoAngles(cfg, names, target, failed, servo, ec.current_angles)
        lastn == names[Len(names)]
    IN  /\ failed \subseteq DOMAIN cfg.channels
        /\ Cardinality(failed) <= MaxFailures - write_failures
        /\ (failed = {}) = (outcome = "ok")
        /\ write_failures' = write_failures + Cardinality(failed)
        /\ servo' = r.servo
        /\ last_write' = WriteRecord(by, get_channel(cfg, lastn),
                                     Clamp(get_angle_range(cfg, lastn)[1],
                                           get_angle_range(cfg, lastn)[2],
                                           target[lastn]),
                                     IF lastn \in failed THEN outcome ELSE "ok")

\* current_angles of the controller ec after center_eyes.
CenteredAngles(ec, failed) ==
    SetServoAngles(Config(ec), Config(ec).order, DefaultAngles(Config(ec)), failed,
                   servo, ec.current_angles).current_angles

\* center_eyes: every channel of the rig to its default angle.
CenterEyes(by, failed, outcome) ==
    /\ CenterBus(eye_controller, by, failed, outcome)
    /\ eye_controller' =
          [eye_controller EXCEPT !.current_angles = CenteredAngles(eye_controller, failed)]
    /\ eye_op' = [op |-> "center", face_x |-> 0, face_y |-> 0, fail_at |-> 0]

\* blink_interval, in seconds (line 34).
blink_interval == 5

\* blink_probability, in thousandths (line 35).
blink_probability == 10

\* No blink_eyes call yet.
NoBlink == [seq |-> 0, force |-> FALSE, now |-> 0, draw |-> 0, blinked |-> FALSE]

\* __init__ (line 33): last_blink_time = 0.
BlinkInit ==
    /\ last_blink_time = 0
    /\ blink_op = NoBlink

\* hasattr(self.config, 'blink_angles')
has_blink_angles(cfg) == cfg.blink_order # <<>>

\* A variant of should_blink that also blinks when exactly blink_interval
\* has passed.
should_blink_inclusive(force, now, last, draw) ==
    force \/ ((now - last) >= blink_interval /\ draw < blink_probability)

\* should_blink (lines 94-97); draw is random.random() in thousandths.
should_blink(force, now, last, draw) ==
    force \/ ((now - last) > blink_interval /\ draw < blink_probability)

\* The bus and current_angles after the two loops of blink_eyes (lines
\* 104-114): each eyelid to its blink angle, then each to its default, through
\* set_servo_angle; the closing writes to the names in close_failed and the
\* opening writes to the names in open_failed raise inside set_servo_angle,
\* which goes on, so that an eyelid keeps the angle of its last write that
\* did not raise.
BlinkWrites(cfg, close_failed, open_failed, sv, ca) ==
    LET lids == {cfg.blink_order[i] : i \in 1..Len(cfg.blink_order)}
        ang(n, a) == LET r == get_angle_range(cfg, n) IN Clamp(r[1], r[2], a)
        after(n, before) ==
            IF n \notin open_failed THEN ang(n, get_default_angle(cfg, n))
            ELSE IF n \notin close_failed THEN ang(n, Deg(cfg.blink_angles[n]))
            ELSE before
    IN  [servo |-> [ch \in Channels |->
                      IF \E n \in lids : get_channel(cfg, n) = ch
                      THEN after(CHOOSE n \in lids : get_channel(cfg, n) = ch, sv[ch])
                      ELSE sv[ch]],
         current_angles |-> [n \in ServoNames |->
                      IF n \in lids THEN after(n, ca[n]) ELSE ca[n]]]

\* The writes of one blink: the closing and the opening write of each eyelid.
BlinkWriteIds(cfg) ==
    {<<phase, cfg.blink_order[i]>> : phase \in {"close", "open"},
                                     i \in 1..Len(cfg.blink_order)}

\* blink_eyes(force) at the time `now` with the random draw `draw`, on a
\* controller that has a servo kit (the server makes no other, line 767);
\* the writes in `failed` raise with `outcome`.
BlinkEyes(by, force, now, draw, failed, outcome) ==
    LET cfg   == Config(eye_controller)
        names == cfg.blink_order
        go    == should_blink(force, now, last_blink_time, draw)
        wrote == go /\ has_blink_angles(cfg)
        r     == BlinkWrites(cfg, {w[2] : w \in {v \in failed : v[1] = "close"}},
                             {w[2] : w \in {v \in failed : v[1] = "open"}},
                             servo, eye_controller.current_angles)
        lastn == names[Len(names)]
    IN  /\ failed \subseteq BlinkWriteIds(cfg)
        /\ ~wrote => failed = {}
        /\ Cardinality(failed) <= MaxFailures - write_failures
        /\ (failed = {}) = (outcome = "ok")
        /\ blink_op' = [seq |-> 1 - blink_op.seq, force |-> force, now |-> now,
                        draw |-> draw, blinked |-> go]
        /\ last_blink_time' = IF go THEN now ELSE last_blink_time
        /\ write_failures' = write_failures + Cardinality(failed)
        /\ servo' = IF wrote THEN r.servo ELSE servo
        /\ eye_controller' =
              IF wrote THEN [eye_controller EXCEPT !.current_angles = r.current_angles]
              ELSE eye_controller
        /\ last_write' =
              IF wrote
              THEN WriteRecord(by, get_channel(cfg, lastn), get_default_angle(cfg, lastn),
                               IF <<"open", lastn>> \in failed THEN outcome ELSE "ok")
              ELSE last_write
        /\ eye_op' = IF wrote
                     THEN [op |-> "blink", face_x |-> 0, face_y |-> 0, fail_at |-> 0]
                     ELSE eye_op

EyeInit ==
    /\ eye_controller = NewEyeController("inmoov")
    /\ eye_op = [op |-> "init", face_x |-> 0, face_y |-> 0, fail_at |-> 0]

----------------------------------------------------------------------------
(* The jaw servo: src/src/voice_assistant_server.py *)

\* clamp_angle(angle, 0, 180)
clamp_angle(angle) == Max(Deg(0), Min(Deg(180), angle))

\* DEFAULT_SETTINGS (lines 44-58): the keys the jaw code reads (degrees) and
\* the keys of the face tracking commands.
DEFAULT_SETTINGS ==
    [jaw_open_angle |-> 100, jaw_close_angle |-> 0, jaw_servo_min_change |-> 2,
     face_tracking_enabled |-> TRUE, camera_index |-> 0]

\* close_angle + (open_angle - close_angle) * (percent / 100.0), lines 106,
\* 109 and 312.
JawAngle(st, o) ==
    Deg(st.jaw_close_angle) + MulDiv(st.jaw_open_angle - st.jaw_close_angle, o, 100)

\* Line 114 comparing with >= instead of >.
SignificantInclusive(st, target_angle, pos) ==
    Abs(target_angle - JawAngle(st, pos)) >= Deg(st.jaw_servo_min_change)

\* Line 114: the change against the angle of the tracked position is
\* significant.
Significant(st, target_angle, pos) ==
    Abs(target_angle - JawAngle(st, pos)) > Deg(st.jaw_servo_min_change)

\* control_jaw_servo_direct that records the position of every request, written or not.
JawPositionAlways(pos, opening_percent, written) == opening_percent

\* Line 117: jaw_position after a request.
JawPositionAfter(pos, opening_percent, written) ==
    IF written THEN opening_percent ELSE pos

\* A flag that every call decides anew: set whenever no write lost the board.
ServoAvailableRetried(available, attempt, outcome) ==
    ~(attempt /\ outcome = "disconnected")

\* Lines 120-126: an error whose text says "No such device" or "disconnected"
\* clears SERVO_AVAILABLE; nothing else in the call assigns it.
ServoAvailableAfter(available, attempt, outcome) ==
    IF attempt /\ outcome = "disconnected" THEN FALSE ELSE available

\* control_jaw_servo_direct without the early return of lines 94-95.
control_jaw_servo_unguarded(by, opening_percent, outcome) ==
    LET target_angle == JawAngle(settings, opening_percent)
        attempt == Significant(settings, target_angle, jaw_position)
        written == attempt /\ outcome = "ok"
    IN  /\ (~attempt) => outcome = "ok"
        /\ MayFail(outcome)
        /\ write_failures' = write_failures + Failed(outcome)
        /\ servo' = IF written
                    THEN [servo EXCEPT ![JAW_CHANNEL] = clamp_angle(target_angle)]
                    ELSE servo
        /\ last_write' = IF attempt
                         THEN WriteRecord(by, JAW_CHANNEL, clamp_angle(target_angle),
                                          outcome)
                         ELSE last_write
        /\ jaw_position' = JawPositionAfter(jaw_position, opening_percent, written)
        /\ SERVO_AVAILABLE' = ServoAvailableAfter(SERVO_AVAILABLE, attempt, outcome)

\* control_jaw_servo_direct(opening_percent): the effect on the flag, the jaw
\* channel and jaw_position when the write, if one is made, has `outcome`.
control_jaw_servo_direct(by, opening_percent, outcome) ==
    LET target_angle == JawAngle(settings, opening_percent)
        attempt == SERVO_AVAILABLE /\ Significant(settings, target_angle, jaw_position)
        written == attempt /\ outcome = "ok"
    IN  /\ (~attempt) => outcome = "ok"
        /\ MayFail(outcome)
        /\ write_failures' = write_failures + Failed(outcome)
        /\ servo' = IF written
                    THEN [servo EXCEPT ![JAW_CHANNEL] = clamp_angle(target_angle)]
                    ELSE servo
        /\ last_write' = IF attempt
                         THEN WriteRecord(by, JAW_CHANNEL, clamp_angle(target_angle),
                                          outcome)
                         ELSE last_write
        /\ jaw_position' = JawPositionAfter(jaw_position, opening_percent, written)
        /\ SERVO_AVAILABLE' = ServoAvailableAfter(SERVO_AVAILABLE, attempt, outcome)

\* The history of a control_jaw_servo_direct(opening_percent) call.
JawRequestRecord(opening_percent, outcome) ==
    LET target_angle == JawAngle(settings, opening_percent)
        attempt == SERVO_AVAILABLE /\ Significant(settings, target_angle, jaw_position)
        written == attempt /\ outcome = "ok"
    IN  [target |-> target_angle, written |-> written,
         failed |-> attempt /\ ~written,
         prev_target |-> jaw_req.target,
         prev_written |-> jaw_req.written,
         prev_accepted |-> jaw_req.accepted,
         accepted |-> IF written THEN target_angle ELSE jaw_req.accepted]

\* No request yet; `accepted` is the target angle of the last request that
\* was written, NoAngle when there is none or when the settings or another
\* writer have changed what the next request is compared with.
NoJawRequest ==
    [target |-> NoAngle, written |-> FALSE, failed |-> FALSE,
     prev_target |-> NoAngle, prev_written |-> FALSE, prev_accepted |-> NoAngle,
     accepted |-> NoAngle]

ForgetAccepted == [jaw_req EXCEPT !.accepted = NoAngle, !.target = NoAngle,
                                  !.written = FALSE]

JawInit ==
    /\ SERVO_AVAILABLE \in BOOLEAN
    /\ settings = DEFAULT_SETTINGS
    /\ stored_settings = DEFAULT_SETTINGS
    /\ jaw_position = 0
    /\ jaw_req = NoJawRequest

\* Values the client sends for the jaw calibration (degrees).
JawOpenAngles == {100, 10}

JawCloseAngles == {0, 20}

JawMinChanges == {2, 5}

\* process_control_commands: set_jaw_open_angle, set_jaw_close_angle and the
\* deadband, each followed by save_settings.
CmdSetJawKey(k, v) ==
    /\ settings' = [settings EXCEPT ![k] = v]
    /\ stored_settings' = settings'
    /\ UNCHANGED <<SERVO_AVAILABLE, jaw_position>>

CmdSetJaw ==
    \E k \in {"jaw_open_angle", "jaw_close_angle", "jaw_servo_min_change"} :
       \E v \in (IF k = "jaw_open_angle" THEN JawOpenAngles
                 ELSE IF k = "jaw_close_angle" THEN JawCloseAngles
                 ELSE JawMinChanges) :
          CmdSetJawKey(k, v)

----------------------------------------------------------------------------
(* Nearest-face selection: src/src/face_tracker.py.  A detection is a tuple *)
(* <<x, y, w, h>> in pixels.  np.sqrt is increasing and one-to-one on the  *)
(* integers that occur, so a distance is kept as its square.               *)

\* get_face_center, and lines 88-89: the centre of a detection.
get_face_center(face) == <<face[1] + face[3] \div 2, face[2] + face[4] \div 2>>

\* Lines 81-82 and 91-94: the squared distance of a detection's centre to
\* the frame centre.
Distance2(face, width, height) ==
    LET c == get_face_center(face)
    IN  (c[1] - width \div 2) * (c[1] - width \div 2)
          + (c[2] - height \div 2) * (c[2] - height \div 2)

\* None, and the value closest_face has before a call.
NoFace == <<>>

NotCalled == <<-1>>

\* float('inf')
Infinity == -1

\* Line 96 with <= for <.
CloserOrEqual(distance, min_distance) ==
    min_distance = Infinity \/ distance <= min_distance

\* Line 96: distance < min_distance.
Closer(distance, min_distance) ==
    min_distance = Infinity \/ distance < min_distance

\* The loop of lines 87-98 from detection i on, closest_face and
\* min_distance being what the detections before it left.
RECURSIVE ClosestFrom(_, _, _, _, _, _)
ClosestFrom(fs, i, width, height, closest, min_distance) ==
    IF i > Len(fs) THEN closest
    ELSE IF Closer(Distance2(fs[i], width, height), min_distance)
         THEN ClosestFrom(fs, i + 1, width, height, fs[i],
                          Distance2(fs[i], width, height))
         ELSE ClosestFrom(fs, i + 1, width, height, closest, min_distance)

\* get_closest_face(faces, frame_width, frame_height)
get_closest_face(fs, width, height) ==
    IF Len(fs) = 0 THEN NoFace
    ELSE ClosestFrom(fs, 1, width, height, NoFace, Infinity)

\* None for a position and for a time.
NoPosition == <<>>

NoTime == -1

\* track_face returned None: read_frame gave no frame.
NoData == [frame |-> FALSE, found |-> FALSE, position |-> NoPosition, time_lost |-> NoTime]

\* FaceTracker.__init__ (lines 26-28), and no track_face call yet.
FaceTrackerInit ==
    /\ last_face_position = NoPosition
    /\ face_lost_time = NoTime
    /\ current_time = 0
    /\ tracking_data = NoData

\* Lines 131-145 of track_face: a face was found.
FaceFound(face) ==
    /\ last_face_position' = get_face_center(face)
    /\ face_lost_time' = NoTime
    /\ tracking_data' = [frame |-> TRUE, found |-> TRUE,
                         position |-> get_face_center(face), time_lost |-> NoTime]

\* A lost tick that stamps the loss anew.
FaceLostRestamp(now) ==
    /\ face_lost_time' = now
    /\ last_face_position' = last_face_position
    /\ tracking_data' = [frame |-> TRUE, found |-> FALSE,
                         position |-> last_face_position, time_lost |-> 0]

\* Lines 146-162 of track_face: no face in the frame, at time now.
FaceLost(now) ==
    LET lost == IF face_lost_time = NoTime THEN now ELSE face_lost_time
    IN  /\ face_lost_time' = lost
        /\ last_face_position' = last_face_position
        /\ tracking_data' = [frame |-> TRUE, found |-> FALSE,
                             position |-> last_face_position,
                             time_lost |-> now - lost]

----------------------------------------------------------------------------
(* The server's shared state and its loops: src/src/voice_assistant_server.py *)

\* The most sessions started in one run.
MaxSessions == 2

\* The most commands the client sends in one run.
MaxCommands == 2

\* The most audio chunks delivered in one run.
MaxChunks == 2

SessIds == 1..MaxSessions

\* Amplitudes of the chunks the voice client delivers: silence and loud speech.
ServerAmplitudes == {0, 500}

\* Face centers the camera reports: a frame corner.
ServerFaces == {<<0, 0>>}

\* The eye writes that may raise: those to the first servo of a centering,
\* and the second write of a tracking batch.
ServerFailNames == {"left_eye_x"}

ServerFailAt == {2}

\* The outcomes of a call in which a write raises, or none does.
OutcomesOf(raises) == IF raises THEN WriteOutcomes \ {"ok"} ELSE {"ok"}

\* steps of the watchdog's smooth close (line 316).
steps == 10

\* The watchdog's final writes of the closed angle, range(5) (line 323).
hold_writes == 5

\* The stop path's forced writes, range(10) (line 386).
stop_writes == 10

\* eye_controller = None
NoEyeController == [config |-> "none", current_angles |-> [n \in ServoNames |-> NoAngle]]

\* A session that has not been started: run_voice_assistant (pc, n writes
\* forced so far) and its monitor_speech_end thread (wd, wn writes made so
\* far, and the ramp's current_angle and target_angle).
NoSession ==
    [pc |-> "none", n |-> 0, wd |-> "none", wn |-> 0, wd_from |-> 0, wd_target |-> 0]

\* The face tracking thread at the top of its loop.  While it is inside
\* track_position, pos is the face it tracks and stale tells that the global
\* eye_controller no longer is the object the call runs on.
LoopTop == [pc |-> "top", pos |-> <<0, 0>>, stale |-> FALSE]

\* The global eye_controller is assigned: a call running on the old object
\* goes on with that object.
Reassigned == IF face_loop.pc = "tracking" THEN [face_loop EXCEPT !.stale = TRUE]
              ELSE face_loop

\* No start or stop of face tracking yet, no status shown.
NoStatus == [seq |-> 0, call |-> "none", result |-> FALSE, shown |-> "none"]

\* A start_face_tracking or stop_face_tracking call returned `result`, and
\* its caller passed `shown` to update_face_tracking_status ("same": no
\* call of it); seq alternates as in WriteRecord.
StatusRecord(call, result, shown) ==
    [seq |-> 1 - face_tracking_status.seq, call |-> call, result |-> result,
     shown |-> IF shown = "same" THEN face_tracking_status.shown ELSE shown]

\* The module's globals (lines 60-88).
ServerIdle ==
    /\ is_running = FALSE
    /\ is_speaking = FALSE
    /\ fired_since_speech = FALSE
    /\ audio_stale = TRUE
    /\ sess = [s \in SessIds |-> NoSession]
    /\ face_tracking_enabled = FALSE
    /\ face_tracker = "none"
    /\ open_cameras = 0
    /\ ControlInit
    /\ face_tracking_thread = FALSE
    /\ disconnect_seen = FALSE
    /\ chunks = 0
    /\ commands = 0
    /\ face_loop = LoopTop
    /\ face_tracking_status = NoStatus

\* The globals, and no call of get_closest_face yet.
ServerInit ==
    /\ ServerIdle
    /\ faces = <<>>
    /\ closest_face = NotCalled
    /\ CatalogInit
    /\ FaceTrackerInit
    /\ BlinkInit

faceVars == <<face_tracking_enabled, face_tracker, open_cameras, face_tracking_thread, face_loop,
              face_tracking_status, detectorVars, catalogVars, blinkVars, controlVars, lossVars>>

\* servo_kit.servo[ch].angle = angle, outside any helper.
RawWrite(by, ch, angle, outcome) ==
    /\ MayFail(outcome)
    /\ write_failures' = write_failures + Failed(outcome)
    /\ servo' = IF outcome = "ok" THEN [servo EXCEPT ![ch] = angle] ELSE servo
    /\ last_write' = WriteRecord(by, ch, angle, outcome)

SawDisconnect(outcome) ==
    disconnect_seen' = (disconnect_seen \/ outcome = "disconnected")

\* start_voice_assistant (lines 400-419): nothing when is_running is set,
\* a new session thread otherwise.
start_voice_assistant ==
    IF is_running
    THEN UNCHANGED <<is_running, sess>>
    ELSE /\ is_running' = TRUE
         /\ \E s \in SessIds :
               /\ sess[s].pc = "none"
               /\ \A t \in SessIds : t < s => sess[t].pc # "none"
               /\ sess' = [sess EXCEPT ![s].pc = "created"]

\* stop_voice_assistant (lines 422-432): nothing when is_running is clear.
stop_voice_assistant ==
    IF ~is_running
    THEN UNCHANGED <<is_running, sess>>
    ELSE /\ is_running' = FALSE
         /\ UNCHANGED sess

\* The command loop processes a start command, the commands so far being
\* fewer than `limit`.
StartCommand(limit) ==
    /\ commands < limit
    /\ commands' = commands + 1
    /\ start_voice_assistant
    /\ UNCHANGED <<trackerVars, busVars, eyeVars, jawVars, is_speaking, fired_since_speech, audio_stale,
                   faceVars, disconnect_seen, chunks>>

\* The command loop processes a stop command.
StopCommand(limit) ==
    /\ commands < limit
    /\ commands' = commands + 1
    /\ stop_voice_assistant
    /\ UNCHANGED <<trackerVars, busVars, eyeVars, jawVars, is_speaking, fired_since_speech, audio_stale,
                   faceVars, disconnect_seen, chunks>>

CmdStart == StartCommand(MaxCommands)

CmdStop == StopCommand(MaxCommands)

\* set_jaw_close_angle, then save_settings.
CmdSetJawCloseAngle ==
    /\ commands < MaxCommands
    /\ commands' = commands + 1
    /\ \E v \in JawCloseAngles : CmdSetJawKey("jaw_close_angle", v)
    /\ UNCHANGED <<trackerVars, busVars, eyeVars, jaw_req, is_running, is_speaking, fired_since_speech,
                   audio_stale, sess, faceVars, disconnect_seen, chunks>>

\* test_jaw: close, open, close, inside one try; the write number fail_at
\* (0: none) raises.
CmdTestJaw ==
    /\ commands < MaxCommands
    /\ commands' = commands + 1
    /\ SERVO_AVAILABLE
    /\ \E fail_at \in 0..3 : \E outcome \in WriteOutcomes :
          LET writes == <<clamp_angle(Deg(settings.jaw_close_angle)),
                       clamp_angle(Deg(settings.jaw_open_angle)),
                       clamp_angle(Deg(settings.jaw_close_angle))>>
              done == IF fail_at = 0 THEN 3 ELSE fail_at - 1
              last == IF fail_at = 0 THEN 3 ELSE fail_at
          IN  /\ (fail_at = 0) = (outcome = "ok")
              /\ MayFail(outcome)
              /\ write_failures' = write_failures + Failed(outcome)
              /\ servo' = IF done = 0 THEN servo
                          ELSE [servo EXCEPT ![JAW_CHANNEL] = writes[done]]
              /\ last_write' = WriteRecord("command", JAW_CHANNEL, writes[last], outcome)
              /\ SERVO_AVAILABLE' = (outcome # "disconnected")
              /\ SawDisconnect(outcome)
    /\ UNCHANGED <<trackerVars, eyeVars, settings, stored_settings, jaw_position, jaw_req,
                   is_running, is_speaking, fired_since_speech, audio_stale, sess, faceVars, chunks>>

\* Lines 529-530: cmd.get('channel', 0) and cmd.get('angle', 90) on a command
\* off the queue.  The queued dict has the keys action and value alone
\* (mouth_visualizer.py line 99), so both are the defaults.
TestChannels == {0}

TestAngles == {90}

\* test_eye_servo: one clamped write; an error is printed, nothing else.
CmdTestEyeServo ==
    /\ commands < MaxCommands
    /\ commands' = commands + 1
    /\ SERVO_AVAILABLE
    /\ \E channel \in TestChannels : \E angle \in TestAngles :
          \E outcome \in WriteOutcomes :
             /\ 0 <= channel /\ channel <= 7
             /\ RawWrite("command", channel, clamp_angle(Deg(angle)), outcome)
             /\ SawDisconnect(outcome)
    /\ UNCHANGED <<trackerVars, eyeVars, jawVars, is_running, is_speaking, fired_since_speech, audio_stale,
                   sess, faceVars, chunks>>

\* start_face_tracking, line 759: face_tracker = FaceTracker() rebinds the
\* global without stop_camera().  A tracker that had its camera open loses
\* the global reference; its handle is released only when the last reference
\* goes, and the face loop may be inside face_tracker.track_face() on it at
\* that moment.  So the old handle is released before the new camera is
\* opened, or it is not.  Then start_camera (lines 31-48) opens the new one
\* or fails.
HandlesAfterRebind(old_tracker, released, camera_ok) ==
    (IF old_tracker = "open" /\ ~released THEN 1 ELSE 0)
       + (IF camera_ok THEN 1 ELSE 0)

\* stop_face_tracking (lines 801-803) and then start_face_tracking: the
\* tracker's stop_camera releases its handle, then the new camera opens or not.
HandlesAfterRestart(camera_ok) == IF camera_ok THEN 1 ELSE 0

\* toggle_face_tracking with a true value: start_face_tracking.  The camera
\* opens or not; with servos an EyeController is made and centered.
CmdFaceTrackingOn ==
    /\ commands < MaxCommands
    /\ commands' = commands + 1
    /\ \E camera_ok \in BOOLEAN : \E released \in BOOLEAN :
          /\ (face_tracker # "open") => released
          /\ open_cameras' = HandlesAfterRebind(face_tracker, released, camera_ok)
          /\ IF ~camera_ok
             THEN /\ face_tracker' = "closed"
                  /\ UNCHANGED <<settings, stored_settings>>
                  /\ face_tracking_status' = StatusRecord("start", FALSE, "disabled")
                  /\ UNCHANGED <<busVars, eyeVars, face_tracking_enabled,
                                 face_tracking_thread, disconnect_seen, face_loop>>
             ELSE /\ face_tracker' = "open"
                  /\ settings' = [settings EXCEPT !.face_tracking_enabled = TRUE]
                  /\ stored_settings' = settings'
                  /\ face_tracking_status' = StatusRecord("start", TRUE, "enabled")
                  /\ face_tracking_enabled' = TRUE
                  /\ face_loop' = Reassigned
                  /\ face_tracking_thread' = TRUE
                  /\ IF SERVO_AVAILABLE
                     THEN \E failed \in FailSets(ServerFailNames) :
                            \E outcome \in OutcomesOf(failed # {}) :
                              /\ CenterBus(NewEyeController("inmoov"), "command",
                                           failed, outcome)
                              /\ eye_controller' =
                                   [NewEyeController("inmoov") EXCEPT
                                      !.current_angles =
                                         CenteredAngles(NewEyeController("inmoov"), failed)]
                              /\ eye_op' = [op |-> "center", face_x |-> 0, face_y |-> 0,
                                            fail_at |-> 0]
                              /\ SawDisconnect(outcome)
                     ELSE /\ eye_controller' = NoEyeController
                          /\ UNCHANGED <<busVars, eye_op, disconnect_seen>>
    /\ UNCHANGED <<trackerVars, SERVO_AVAILABLE, jaw_position, jaw_req, is_running, is_speaking, fired_since_speech, audio_stale, sess,
                   detectorVars, catalogVars, blinkVars, controlVars, lossVars,
                   chunks>>

\* toggle_face_tracking with a false value: stop_face_tracking, then
\* settings['face_tracking_enabled'] = False and save_settings.
CmdFaceTrackingOff ==
    /\ commands < MaxCommands
    /\ commands' = commands + 1
    /\ face_tracking_enabled' = FALSE
    /\ settings' = [settings EXCEPT !.face_tracking_enabled = FALSE]
    /\ stored_settings' = settings'
    /\ face_tracker' = "none"
    /\ open_cameras' = 0
    /\ IF eye_controller # NoEyeController
       THEN \E failed \in FailSets(ServerFailNames) :
              \E outcome \in OutcomesOf(failed # {}) :
                /\ CenterBus(eye_controller, "command", failed, outcome)
                /\ eye_op' = [op |-> "center", face_x |-> 0, face_y |-> 0,
                              fail_at |-> 0]
                /\ SawDisconnect(outcome)
       ELSE UNCHANGED <<busVars, eye_op, disconnect_seen>>
    /\ eye_controller' = NoEyeController
    /\ face_loop' = Reassigned
    /\ face_tracking_status' = StatusRecord("stop", TRUE, "disabled")
    /\ UNCHANGED <<trackerVars, SERVO_AVAILABLE, jaw_position, jaw_req, is_running, is_speaking, fired_since_speech, audio_stale, sess,
                   detectorVars, catalogVars, blinkVars, controlVars, lossVars,
                   face_tracking_thread, chunks>>

\* Camera indexes the client sends.
CameraIndexes == {1}

\* set_camera_index (lines 658-667): settings['camera_index'] = value; with
\* face tracking enabled, stop_face_tracking and then start_face_tracking,
\* whose result is not looked at; then save_settings.  At most one of the
\* centring writes raises, in the last center_eyes call made.
CmdSetCameraIndex ==
    /\ commands < MaxCommands
    /\ commands' = commands + 1
    /\ \E value \in CameraIndexes :
          settings' = [settings EXCEPT !.camera_index = value]
    /\ stored_settings' = settings'
    /\ IF ~face_tracking_enabled
       THEN UNCHANGED <<busVars, eyeVars, face_tracking_enabled, face_tracker, open_cameras,
                        face_tracking_thread, face_loop, face_tracking_status,
                        disconnect_seen>>
       ELSE \E camera_ok \in BOOLEAN :
            \E failed \in FailSets(ServerFailNames) :
            \E outcome \in OutcomesOf(failed # {}) :
               LET old     == eye_controller
                   new     == NewEyeController("inmoov")
                   restart == camera_ok /\ SERVO_AVAILABLE
                   wrote   == old # NoEyeController \/ restart
                   r1 == IF old # NoEyeController
                         THEN SetServoAngles(Config(old), Config(old).order,
                                             DefaultAngles(Config(old)),
                                             IF restart THEN {} ELSE failed,
                                             servo, old.current_angles)
                         ELSE [servo |-> servo, current_angles |-> old.current_angles]
                   r2 == IF restart
                         THEN SetServoAngles(Config(new), Config(new).order,
                                             DefaultAngles(Config(new)), failed,
                                             r1.servo, new.current_angles)
                         ELSE r1
                   cfg   == IF restart THEN Config(new) ELSE Config(old)
                   lastn == cfg.order[Len(cfg.order)]
               IN  /\ wrote \/ failed = {}
                   /\ servo' = r2.servo
                   /\ write_failures' = write_failures + Cardinality(failed)
                   /\ last_write' =
                         IF wrote
                         THEN WriteRecord("command", get_channel(cfg, lastn),
                                          r2.servo[get_channel(cfg, lastn)],
                                          IF lastn \in failed THEN outcome ELSE "ok")
                         ELSE last_write
                   /\ eye_controller' =
                         IF restart
                         THEN [new EXCEPT !.current_angles = r2.current_angles]
                         ELSE NoEyeController
                   /\ eye_op' = IF wrote
                                THEN [op |-> "center", face_x |-> 0, face_y |-> 0,
                                      fail_at |-> 0]
                                ELSE eye_op
                   /\ SawDisconnect(outcome)
                   /\ face_tracking_enabled' = camera_ok
                   /\ face_tracker' = IF camera_ok THEN "open" ELSE "closed"
                   /\ open_cameras' = HandlesAfterRestart(camera_ok)
                   /\ face_tracking_thread' = (face_tracking_thread \/ camera_ok)
                   /\ face_loop' = Reassigned
                   /\ face_tracking_status' = StatusRecord("start", camera_ok, "same")
    /\ UNCHANGED <<trackerVars, SERVO_AVAILABLE, jaw_position, jaw_req, is_running, is_speaking, fired_since_speech, audio_stale, sess,
                   detectorVars, catalogVars, blinkVars, controlVars, lossVars, chunks>>

\* run_voice_assistant up to the start of its monitor_speech_end thread
\* (lines 220-337).
SessSetup(s) ==
    /\ sess[s].pc = "created"
    /\ sess' = [sess EXCEPT ![s].pc = "starting", ![s].wd = "loop"]
    /\ UNCHANGED <<trackerVars, busVars, eyeVars, jawVars, is_running, is_speaking, fired_since_speech,
                   audio_stale, faceVars, disconnect_seen, chunks, commands>>

\* start_session and the audio tasks (lines 339-345): the session runs, or
\* start_session raises and run_voice_assistant ends in its except clause.
SessStartSession(s) ==
    /\ sess[s].pc = "starting"
    /\ \E ok \in BOOLEAN :
          sess' = [sess EXCEPT ![s].pc = IF ok THEN "running" ELSE "failed"]
    /\ UNCHANGED <<trackerVars, busVars, eyeVars, jawVars, is_running, is_speaking, fired_since_speech,
                   audio_stale, faceVars, disconnect_seen, chunks, commands>>

\* on_audio_chunk (lines 266-285), called while the session's audio tasks run.
OnAudioChunk(s) ==
    /\ sess[s].pc = "running"
    /\ chunks < MaxChunks
    /\ \E a \in ServerAmplitudes : \E outcome \in WriteOutcomes :
          LET c == ProcessAudioChunk(audio_mouth_controller, a) IN
          /\ audio_stale' = FALSE
          /\ audio_mouth_controller' = c
          /\ prev_opening' = audio_mouth_controller.current_opening
          /\ opening' = c.current_opening
          /\ viseme' = get_viseme_from_opening(c.current_opening)
          /\ last_call' = "process"
          /\ is_speaking' = (c.current_opening > Percent(3))
          /\ fired_since_speech' = (fired_since_speech /\ ~is_speaking')
          /\ control_jaw_servo_direct("audio", c.current_opening, outcome)
          /\ SawDisconnect(outcome)
    /\ chunks' = chunks + 1
    /\ UNCHANGED <<eyeVars, settings, stored_settings, jaw_req, is_running, sess,
                   faceVars, commands>>

\* Half a second passes without an audio chunk (line 298).
AudioGap ==
    /\ ~audio_stale
    /\ audio_stale' = TRUE
    /\ UNCHANGED <<trackerVars, busVars, eyeVars, jawVars, is_running, is_speaking, fired_since_speech,
                   sess, faceVars, disconnect_seen, chunks, commands>>

\* The session's wait loop sees is_running false, cancels the audio tasks
\* and ends the session (lines 348-375).
SessLoopExit(s) ==
    /\ sess[s].pc = "running"
    /\ ~is_running
    /\ sess' = [sess EXCEPT ![s].pc = "stopping"]
    /\ UNCHANGED <<trackerVars, busVars, eyeVars, jawVars, is_running, is_speaking, fired_since_speech,
                   audio_stale, faceVars, disconnect_seen, chunks, commands>>

\* Lines 379-384: is_speaking = False, control_jaw_servo_direct(0), and the
\* test of SERVO_AVAILABLE.
SessClose(s) ==
    /\ sess[s].pc = "stopping"
    /\ is_speaking' = FALSE
    /\ \E outcome \in WriteOutcomes :
          /\ control_jaw_servo_direct("session", 0, outcome)
          /\ SawDisconnect(outcome)
    /\ sess' = [sess EXCEPT ![s].pc = IF SERVO_AVAILABLE' THEN "force" ELSE "stopped",
                            ![s].n = 0]
    /\ UNCHANGED <<trackerVars, eyeVars, settings, stored_settings, jaw_req, is_running,
                   audio_stale, fired_since_speech, faceVars, chunks, commands>>

\* Lines 386-388: one of the stop path's forced writes, of 0 degrees.  A
\* raising write ends run_voice_assistant in its except clause.
SessForce(s) ==
    /\ sess[s].pc = "force"
    /\ sess[s].n < stop_writes
    /\ \E outcome \in WriteOutcomes :
          /\ RawWrite("session", JAW_CHANNEL, 0, outcome)
          /\ SawDisconnect(outcome)
          /\ sess' = IF outcome = "ok"
                     THEN [sess EXCEPT ![s].n = @ + 1]
                     ELSE [sess EXCEPT ![s].pc = "aborted", ![s].n = 0]
    /\ UNCHANGED <<trackerVars, eyeVars, jawVars, is_running, is_speaking, fired_since_speech, audio_stale,
                   faceVars, chunks, commands>>

\* Line 389: jaw_position = 0 after the forced writes.
SessForceDone(s) ==
    /\ sess[s].pc = "force"
    /\ sess[s].n = stop_writes
    /\ jaw_position' = 0
    /\ sess' = [sess EXCEPT ![s].pc = "stopped", ![s].n = 0]
    /\ UNCHANGED <<trackerVars, busVars, eyeVars, SERVO_AVAILABLE, settings,
                   stored_settings, jaw_req, is_running, is_speaking, fired_since_speech, audio_stale,
                   faceVars, disconnect_seen, chunks, commands>>

\* monitor_speech_end, line 296: the loop ends when is_running is false.
WdExit(s) ==
    /\ sess[s].wd = "loop"
    /\ ~is_running
    /\ sess' = [sess EXCEPT ![s].wd = "exit"]
    /\ UNCHANGED <<trackerVars, busVars, eyeVars, jawVars, is_running, is_speaking, fired_since_speech,
                   audio_stale, faceVars, disconnect_seen, chunks, commands>>

\* Line 299: the test of the watchdog's loop, speaking and no audio for half
\* a second, found true.  The print of line 300 comes before the assignment.
WdCheck(s) ==
    /\ sess[s].wd = "loop"
    /\ is_running
    /\ is_speaking
    /\ audio_stale
    /\ sess' = [sess EXCEPT ![s].wd = "check"]
    /\ UNCHANGED <<trackerVars, busVars, eyeVars, jawVars, is_running, is_speaking, fired_since_speech,
                   audio_stale, faceVars, disconnect_seen, chunks, commands>>

\* Line 301: is_speaking = False: the watchdog declares the speech ended.
WdFire(s) ==
    /\ sess[s].wd = "check"
    /\ is_speaking' = FALSE
    /\ fired_since_speech' = TRUE
    /\ sess' = [sess EXCEPT ![s].wd = "fired"]
    /\ UNCHANGED <<trackerVars, busVars, eyeVars, jawVars, is_running, audio_stale,
                   faceVars, disconnect_seen, chunks, commands>>

\* Lines 305-313 and 328-331: the tracker is reset; with servos the ramp
\* starts from the angle of jaw_position, without them jaw_position = 0.
WdReset(s) ==
    /\ sess[s].wd = "fired"
    /\ audio_mouth_controller' = ResetController(audio_mouth_controller)
    /\ prev_opening' = audio_mouth_controller.current_opening
    /\ last_call' = "reset"
    /\ IF SERVO_AVAILABLE
       THEN /\ sess' = [sess EXCEPT ![s].wd = "ramp", ![s].wn = 0,
                                    ![s].wd_from = JawAngle(settings, jaw_position),
                                    ![s].wd_target = Deg(settings.jaw_close_angle)]
            /\ UNCHANGED jaw_position
       ELSE /\ sess' = [sess EXCEPT ![s].wd = "loop"]
            /\ jaw_position' = 0
    /\ UNCHANGED <<opening, viseme, busVars, eyeVars, SERVO_AVAILABLE, settings,
                   stored_settings, jaw_req, is_running, is_speaking, fired_since_speech, audio_stale,
                   faceVars, disconnect_seen, chunks, commands>>

\* A variant of the ramp angle that takes i / steps for (i + 1) / steps.
RampAngleFromStart(current_angle, target_angle, i) ==
    current_angle + MulDiv(target_angle - current_angle, i, steps)

\* Line 318: the angle of the ramp's write number i of range(steps).
RampAngle(current_angle, target_angle, i) ==
    current_angle + MulDiv(target_angle - current_angle, i + 1, steps)

\* Lines 317-320: one step of the ramp.  The write is outside any try: if it
\* raises, the thread ends.
WdRamp(s) ==
    /\ sess[s].wd = "ramp"
    /\ \E outcome \in WriteOutcomes :
          LET angle == RampAngle(sess[s].wd_from, sess[s].wd_target, sess[s].wn)
          IN  /\ RawWrite("watchdog", JAW_CHANNEL, clamp_angle(angle), outcome)
              /\ SawDisconnect(outcome)
              /\ sess' = IF outcome # "ok"
                         THEN [sess EXCEPT ![s].wd = "dead", ![s].wn = 0,
                                           ![s].wd_from = 0, ![s].wd_target = 0]
                         ELSE IF sess[s].wn + 1 = steps
                         THEN [sess EXCEPT ![s].wd = "hold", ![s].wn = 0, ![s].wd_from = 0]
                         ELSE [sess EXCEPT ![s].wn = @ + 1]
    /\ UNCHANGED <<trackerVars, eyeVars, jawVars, is_running, is_speaking, fired_since_speech, audio_stale,
                   faceVars, chunks, commands>>

\* Lines 323-325: one of the final writes of the closed angle.
WdHold(s) ==
    /\ sess[s].wd = "hold"
    /\ sess[s].wn < hold_writes
    /\ \E outcome \in WriteOutcomes :
          /\ RawWrite("watchdog", JAW_CHANNEL, clamp_angle(sess[s].wd_target), outcome)
          /\ SawDisconnect(outcome)
          /\ sess' = IF outcome # "ok"
                     THEN [sess EXCEPT ![s].wd = "dead", ![s].wn = 0, ![s].wd_target = 0]
                     ELSE [sess EXCEPT ![s].wn = @ + 1]
    /\ UNCHANGED <<trackerVars, eyeVars, jawVars, is_running, is_speaking, fired_since_speech, audio_stale,
                   faceVars, chunks, commands>>

\* Line 326: jaw_position = 0, and back to the top of the loop.
WdDone(s) ==
    /\ sess[s].wd = "hold"
    /\ sess[s].wn = hold_writes
    /\ jaw_position' = 0
    /\ sess' = [sess EXCEPT ![s].wd = "loop", ![s].wn = 0, ![s].wd_target = 0]
    /\ UNCHANGED <<trackerVars, busVars, eyeVars, SERVO_AVAILABLE, settings,
                   stored_settings, jaw_req, is_running, is_speaking, fired_since_speech, audio_stale,
                   faceVars, disconnect_seen, chunks, commands>>

\* The eyelids after blink_eyes: closed, then back to their default angles.
BlinkAngles(cfg, sv, ca) ==
    SetServoAngles(cfg, cfg.blink_order, DefaultAngles(cfg), {}, sv, ca)

\* track_position on the controller ec and blink_eyes on a found face (lines
\* 720-722): the bus and current_angles after them; the write number fail_at
\* (0: none) of the batch raises.
TrackAndBlink(ec, pos, fail_at, blink) ==
    LET cfg   == Config(ec)
        batch == angles_to_set(cfg, pos[1], pos[2], frame_width, frame_height)
        done  == IF fail_at = 0 THEN Len(batch) ELSE fail_at - 1
        last  == IF fail_at = 0 THEN Len(batch) ELSE fail_at
        sv1   == BatchServo(cfg, batch, done, servo)
        ca1   == BatchAngles(cfg, batch, done, ec.current_angles)
    IN  [servo |-> IF blink THEN BlinkAngles(cfg, sv1, ca1).servo ELSE sv1,
         current_angles |-> IF blink THEN BlinkAngles(cfg, sv1, ca1).current_angles
                            ELSE ca1,
         ch |-> get_channel(cfg, batch[last].name)]

\* The jaw safety check of line 738, on a thirtieth frame.
SafetyCheck == ~is_speaking /\ SERVO_AVAILABLE /\ jaw_position > 0

\* The rest of an iteration (lines 738-748) after the eye writes left the
\* bus as sv, the last of them on channel ch with `outcome`: on a thirtieth
\* frame (frames tells whether this may be one) the jaw safety check runs;
\* an error raised by its write is caught by the loop.
FaceLoopRest(sv, wrote, ch, outcome, frames) ==
    \E thirtieth \in frames :
    \E jaw_outcome \in OutcomesOf(FALSE) \cup
                       (IF thirtieth /\ SafetyCheck /\ outcome = "ok"
                           /\ write_failures < MaxFailures
                        THEN WriteOutcomes ELSE {}) :
       LET safety == thirtieth /\ SafetyCheck IN
       /\ write_failures' = write_failures + Failed(outcome) + Failed(jaw_outcome)
       /\ servo' = IF safety /\ jaw_outcome = "ok"
                   THEN [sv EXCEPT ![JAW_CHANNEL] = 0]
                   ELSE sv
       /\ last_write' = IF safety
                        THEN WriteRecord("face_loop", JAW_CHANNEL, 0, jaw_outcome)
                        ELSE IF wrote
                        THEN WriteRecord("face_loop", ch, servo'[ch], outcome)
                        ELSE last_write
       /\ jaw_position' = IF safety /\ jaw_outcome = "ok" THEN 0 ELSE jaw_position
       /\ disconnect_seen' = (\/ disconnect_seen
                              \/ outcome = "disconnected"
                              \/ jaw_outcome = "disconnected")

\* The guard at the top of face_tracking_loop (line 684).
FaceLoopRuns ==
    /\ face_tracking_thread
    /\ face_tracking_enabled
    /\ face_tracker # "none"

\* One iteration of face_tracking_loop (lines 688-748) that moves no eye: no
\* tracking data, no face, or no EyeController.
FaceLoopIter ==
    /\ face_loop.pc = "top"
    /\ FaceLoopRuns
    /\ FaceLoopRest(servo, FALSE, 0, "ok", BOOLEAN)
    /\ UNCHANGED <<trackerVars, eyeVars, SERVO_AVAILABLE, settings, stored_settings,
                   jaw_req, is_running, is_speaking, fired_since_speech, audio_stale, sess, faceVars,
                   chunks, commands>>

\* Lines 684-721: the iteration finds a face, sees an EyeController and
\* calls its track_position.
FaceLoopEnter ==
    /\ face_loop.pc = "top"
    /\ FaceLoopRuns
    /\ face_tracker = "open"
    /\ eye_controller # NoEyeController
    /\ \E pos \in ServerFaces :
          face_loop' = [pc |-> "tracking", pos |-> pos, stale |-> FALSE]
    /\ UNCHANGED <<trackerVars, busVars, eyeVars, jawVars, is_running, is_speaking, fired_since_speech,
                   audio_stale, sess, face_tracking_enabled, face_tracker, open_cameras,
                   face_tracking_thread, face_tracking_status, detectorVars, catalogVars, blinkVars, controlVars, lossVars,
                   disconnect_seen, chunks, commands>>

\* Lines 721-748: the writes of the track_position call, on the object it
\* was called on; then eye_controller.blink_eyes() and the rest of the
\* iteration.  When eye_controller has become None meanwhile, the blink call
\* raises and the loop's except clause ends the iteration.
FaceLoopTrack ==
    /\ face_loop.pc = "tracking"
    /\ \E blink \in (IF face_loop.stale THEN {FALSE} ELSE BOOLEAN) :
       \E fail_at \in {0} \cup (IF write_failures < MaxFailures
                                THEN ServerFailAt ELSE {}) :
       \E outcome \in OutcomesOf(fail_at # 0) :
          LET ec == IF face_loop.stale THEN NewEyeController("inmoov")
                    ELSE eye_controller
              r  == TrackAndBlink(ec, face_loop.pos, fail_at, blink)
          IN  /\ eye_controller' =
                    IF face_loop.stale THEN eye_controller
                    ELSE [eye_controller EXCEPT !.current_angles = r.current_angles]
              /\ eye_op' = [op |-> "track", face_x |-> face_loop.pos[1],
                            face_y |-> face_loop.pos[2], fail_at |-> fail_at]
              /\ FaceLoopRest(r.servo, TRUE, r.ch, outcome,
                              IF eye_controller = NoEyeController THEN {FALSE}
                              ELSE BOOLEAN)
    /\ face_loop' = LoopTop
    /\ UNCHANGED <<trackerVars, SERVO_AVAILABLE, settings, stored_settings, jaw_req,
                   is_running, is_speaking, fired_since_speech, audio_stale, sess, face_tracking_enabled,
                   face_tracker, open_cameras, face_tracking_thread, face_tracking_status, detectorVars,
                   catalogVars, blinkVars, controlVars, lossVars, chunks, commands>>

\* load_settings: the defaults, updated with the document an earlier run saved.
LoadedSettings ==
    {[DEFAULT_SETTINGS EXCEPT !.jaw_close_angle = v] : v \in JawCloseAngles}

\* The server after its module has loaded: the servo kit was found or not,
\* no session, no face tracking.
Init ==
    /\ audio_mouth_controller = NewController
    /\ opening = 0
    /\ prev_opening = 0
    /\ viseme = "CLOSED"
    /\ last_call = "init"
    /\ BusInit
    /\ eye_controller = NoEyeController
    /\ eye_op = [op |-> "init", face_x |-> 0, face_y |-> 0, fail_at |-> 0]
    /\ SERVO_AVAILABLE \in BOOLEAN
    /\ settings \in LoadedSettings
    /\ stored_settings = settings
    /\ jaw_position = 0
    /\ jaw_req = NoJawRequest
    /\ ServerInit

Next ==
    \/ CmdStart
    \/ CmdStop
    \/ CmdSetJawCloseAngle
    \/ CmdTestJaw
    \/ CmdTestEyeServo
    \/ CmdFaceTrackingOn
    \/ CmdFaceTrackingOff
    \/ CmdSetCameraIndex
    \/ AudioGap
    \/ FaceLoopIter
    \/ FaceLoopEnter
    \/ FaceLoopTrack
    \/ \E s \in SessIds :
          \/ SessSetup(s)
          \/ SessStartSession(s)
          \/ OnAudioChunk(s)
          \/ SessLoopExit(s)
          \/ SessClose(s)
          \/ SessForce(s)
          \/ SessForceDone(s)
          \/ WdExit(s)
          \/ WdCheck(s)
          \/ WdFire(s)
          \/ WdReset(s)
          \/ WdRamp(s)
          \/ WdHold(s)
          \/ WdDone(s)

Spec == Init /\ [][Next]_vars

\* A step of a session's monitor_speech_end thread.
WatchdogStep(s) ==
    WdExit(s) \/ WdCheck(s) \/ WdFire(s) \/ WdReset(s) \/ WdRamp(s) \/ WdHold(s) \/ WdDone(s)

----------------------------------------------------------------------------
(* The control path: handle_control, the command queue and
   process_control_commands, with the settings document
   (src/src/mouth_visualizer.py, src/src/voice_assistant_server.py) *)

\* The most control messages the client sends in one run.
MaxMessages == 3

\* Python's None where an integer is expected.
None == -2

\* dict.get(key, default)
Get(dict, key, default) == IF key \in DOMAIN dict THEN dict[key] ELSE default

\* dict[key] = value
Put(dict, key, value) ==
    [k \in DOMAIN dict \cup {key} |-> IF k = key THEN value ELSE dict[k]]

\* An empty dict.
EmptyDict == <<>>

\* str(channel), for the channels the messages name.
Str(n) == <<"0", "1", "2", "3", "4", "5", "6", "7", "8", "9">>[n + 1]

\* The settings file does not exist; it exists and json.load raises.
NoDocument == [exists |-> FALSE]

UnreadableDocument == [exists |-> TRUE, readable |-> FALSE]

\* A load that takes the stored document alone, without the defaults.
load_settings_stored(document) ==
    IF document \in {NoDocument, UnreadableDocument}
    THEN DEFAULT_SETTINGS
    ELSE document

\* load_settings (lines 193-201): {**DEFAULT_SETTINGS, **json.load(f)}, and
\* a copy of DEFAULT_SETTINGS without a file or on an exception.
load_settings(document) ==
    IF document \in {NoDocument, UnreadableDocument}
    THEN DEFAULT_SETTINGS
    ELSE [k \in DOMAIN DEFAULT_SETTINGS \cup DOMAIN document |->
            IF k \in DOMAIN document THEN document[k] ELSE DEFAULT_SETTINGS[k]]

\* The eye_servos entry save_eye_config writes (lines 568-572).
EyeServoEntry(min_angle, max_angle, center_angle) ==
    [min_angle |-> min_angle, max_angle |-> max_angle, center_angle |-> center_angle]

\* The settings documents found at startup: none, a damaged one, one with a
\* single key, one with a key the defaults do not have, and a complete one.
StoredDocuments ==
    {NoDocument,
     UnreadableDocument,
     [jaw_close_angle |-> 20],
     [camera_index |-> 1, eye_servos |-> Put(EmptyDict, "0", EyeServoEntry(57, 145, 100))],
     DEFAULT_SETTINGS}

\* The control messages the client sends (angles in degrees).
ClientMessages ==
    {[action |-> "set_jaw_close_angle", value |-> 20],
     [action |-> "set_camera_index", value |-> 1],
     [action |-> "mute", value |-> 1],
     [action |-> "test_eye_servo", channel |-> 3, angle |-> 120],
     [action |-> "test_eye_servo", channel |-> 9, angle |-> 90],
     [action |-> "sweep_eye_servo", channel |-> 2, min_angle |-> 70,
      max_angle |-> 180, center_angle |-> 70],
     [action |-> "center_all_eyes"],
     [action |-> "save_eye_config", channel |-> 2, min_angle |-> 70,
      max_angle |-> 180, center_angle |-> 100]}

\* handle_control, line 99: the dict put on the queue.
Queued(data) ==
    [action |-> Get(data, "action", None), value |-> Get(data, "value", None)]

\* handle_control (mouth_visualizer.py lines 90-101).
HandleControl ==
    /\ Len(received) < MaxMessages
    /\ \E data \in ClientMessages :
          /\ received' = Append(received, data)
          /\ mouth_queue' = Append(mouth_queue, Queued(data))
    /\ UNCHANGED <<trackerVars, busVars, eyeVars, jawVars, is_running, is_speaking,
                   fired_since_speech, audio_stale, sess, disconnect_seen, chunks,
                   commands, controlRest, handled, command_loop>>

\* A queue whose get returns the newest item.
QueueGetNewest(queue) ==
    [item |-> queue[Len(queue)], rest |-> SubSeq(queue, 1, Len(queue) - 1)]

\* queue.Queue.get on a queue that is not empty: the oldest item.
QueueGet(queue) == [item |-> Head(queue), rest |-> Tail(queue)]

\* get_control_command (lines 202-215) on a queue that stays empty for the
\* timeout: queue.Empty is caught and None returned; the loop sleeps and
\* polls again (lines 442-444, 673).
PollTimeout ==
    /\ command_loop.pc = "poll"
    /\ mouth_queue = <<>>
    /\ command_loop' = [command_loop EXCEPT !.got = "none"]
    /\ UNCHANGED <<trackerVars, busVars, eyeVars, jawVars, is_running, is_speaking,
                   fired_since_speech, audio_stale, sess, disconnect_seen, chunks,
                   commands, controlRest, mouth_queue, received, handled>>

\* The commands that assign a key of settings (lines 459-501, 557-574, 647-667).
SettingActions == {"set_jaw_close_angle", "set_camera_index", "save_eye_config"}

\* Lines 494-497 and 670-671.
HandleSetJawCloseAngle(cmd) ==
    /\ settings' = Put(settings, "jaw_close_angle", cmd.value)
    /\ stored_settings' = settings'
    /\ command_loop' = [command_loop EXCEPT !.got = "command"]
    /\ UNCHANGED <<busVars, disconnect_seen>>

\* Lines 658-671, with face tracking not enabled: nothing is restarted.
HandleSetCameraIndex(cmd) ==
    /\ ~face_tracking_enabled
    /\ settings' = Put(settings, "camera_index", cmd.value)
    /\ stored_settings' = settings'
    /\ command_loop' = [command_loop EXCEPT !.got = "command"]
    /\ UNCHANGED <<busVars, disconnect_seen>>

\* Lines 456-458: is_muted = value; no setting, no save.
HandleMute(cmd) ==
    /\ command_loop' = [command_loop EXCEPT !.got = "command"]
    /\ UNCHANGED <<busVars, disconnect_seen, settings, stored_settings>>

\* Lines 528-540.
HandleTestEyeServo(cmd) ==
    LET channel == Get(cmd, "channel", 0)
        angle   == Get(cmd, "angle", 90)
    IN  /\ IF SERVO_AVAILABLE /\ 0 <= channel /\ channel <= 7
           THEN \E outcome \in WriteOutcomes :
                   /\ RawWrite("command", channel, clamp_angle(Deg(angle)), outcome)
                   /\ SawDisconnect(outcome)
           ELSE UNCHANGED <<busVars, disconnect_seen>>
        /\ command_loop' = [command_loop EXCEPT !.got = "command"]
        /\ UNCHANGED <<settings, stored_settings>>

\* Line 548: the saved center angle of a channel, 90 without one.
CenterAngleOf(st, channel) ==
    Get(Get(Get(st, "eye_servos", EmptyDict), Str(channel), EmptyDict),
        "center_angle", 90)

\* Lines 542-555: channels 0 to 7, each write in its own try; the write to
\* channel fail_ch (None: no write) raises.
HandleCenterAllEyes(cmd) ==
    /\ IF SERVO_AVAILABLE
       THEN \E fail_ch \in {None} \cup 0..7 : \E outcome \in WriteOutcomes :
               /\ (fail_ch = None) = (outcome = "ok")
               /\ MayFail(outcome)
               /\ write_failures' = write_failures + Failed(outcome)
               /\ servo' = [ch \in Channels |->
                              IF ch <= 7 /\ ch # fail_ch
                              THEN clamp_angle(Deg(CenterAngleOf(settings, ch)))
                              ELSE servo[ch]]
               /\ last_write' = WriteRecord("command", 7,
                                            clamp_angle(Deg(CenterAngleOf(settings, 7))),
                                            IF fail_ch = 7 THEN outcome ELSE "ok")
               /\ SawDisconnect(outcome)
       ELSE UNCHANGED <<busVars, disconnect_seen>>
    /\ command_loop' = [command_loop EXCEPT !.got = "command"]
    /\ UNCHANGED <<settings, stored_settings>>

\* Lines 557-575: the entry of str(channel) in settings['eye_servos'], and
\* save_settings at once.
HandleSaveEyeConfig(cmd) ==
    LET channel      == Get(cmd, "channel", 0)
        min_angle    == Get(cmd, "min_angle", 0)
        max_angle    == Get(cmd, "max_angle", 180)
        center_angle == Get(cmd, "center_angle", 90)
        eye_servos   == Get(settings, "eye_servos", EmptyDict)
    IN  /\ settings' = Put(settings, "eye_servos",
                           Put(eye_servos, Str(channel),
                               EyeServoEntry(min_angle, max_angle, center_angle)))
        /\ stored_settings' = settings'
        /\ command_loop' = [command_loop EXCEPT !.got = "command"]
        /\ UNCHANGED <<busVars, disconnect_seen>>

\* Line 603: steps = 20.
sweep_steps == 20

\* Lines 591-598: the channel and the clamped angles of the sweep; with the
\* servos and a channel in 0..7 the sweep begins.
HandleSweepEyeServo(cmd) ==
    LET channel      == Get(cmd, "channel", 0)
        min_angle    == clamp_angle(Deg(Get(cmd, "min_angle", 0)))
        max_angle    == clamp_angle(Deg(Get(cmd, "max_angle", 180)))
        center_angle == clamp_angle(Deg(Get(cmd, "center_angle", 90)))
    IN  /\ command_loop' =
              IF SERVO_AVAILABLE /\ 0 <= channel /\ channel <= 7
              THEN [pc |-> "sweep", got |-> "command", n |-> 0, channel |-> channel,
                    min_angle |-> min_angle, max_angle |-> max_angle,
                    center_angle |-> center_angle]
              ELSE [command_loop EXCEPT !.got = "command"]
        /\ UNCHANGED <<busVars, disconnect_seen, settings, stored_settings>>

\* The command loop takes the oldest command off the queue and handles it
\* (lines 441-671).
ProcessCommand ==
    /\ command_loop.pc = "poll"
    /\ mouth_queue # <<>>
    /\ LET got == QueueGet(mouth_queue)
           cmd == got.item
       IN  /\ mouth_queue' = got.rest
           /\ handled' = Append(handled, cmd)
           /\ CASE cmd.action = "set_jaw_close_angle" -> HandleSetJawCloseAngle(cmd)
                [] cmd.action = "set_camera_index" -> HandleSetCameraIndex(cmd)
                [] cmd.action = "mute" -> HandleMute(cmd)
                [] cmd.action = "test_eye_servo" -> HandleTestEyeServo(cmd)
                [] cmd.action = "center_all_eyes" -> HandleCenterAllEyes(cmd)
                [] cmd.action = "save_eye_config" -> HandleSaveEyeConfig(cmd)
                [] cmd.action = "sweep_eye_servo" -> HandleSweepEyeServo(cmd)
    /\ UNCHANGED <<trackerVars, eyeVars, SERVO_AVAILABLE, jaw_position, jaw_req,
                   is_running, is_speaking, fired_since_speech, audio_stale, sess,
                   chunks, commands, controlRest, received>>

\* The angle of write number n of the sweep: the minimum, the steps + 1
\* interpolated angles, the center (lines 600-612).
SweepAngle(loop) ==
    IF loop.n = 0 THEN loop.min_angle
    ELSE IF loop.n <= sweep_steps + 1
    THEN clamp_angle(loop.min_angle
                       + MulDiv(loop.max_angle - loop.min_angle, loop.n - 1, sweep_steps))
    ELSE loop.center_angle

\* One write of the sweep; a write that raises ends it (lines 599-615).
SweepWrite ==
    /\ command_loop.pc = "sweep"
    /\ \E outcome \in WriteOutcomes :
          /\ RawWrite("command", command_loop.channel, SweepAngle(command_loop), outcome)
          /\ SawDisconnect(outcome)
          /\ command_loop' =
                IF outcome # "ok" \/ command_loop.n = sweep_steps + 2
                THEN [Polling EXCEPT !.got = "command"]
                ELSE [command_loop EXCEPT !.n = @ + 1]
    /\ UNCHANGED <<trackerVars, eyeVars, jawVars, is_running, is_speaking,
                   fired_since_speech, audio_stale, sess, chunks, commands,
                   controlRest, mouth_queue, received, handled>>

\* The server after its module has loaded, with the settings file as it was
\* found.
InitControl ==
    /\ audio_mouth_controller = NewController
    /\ opening = 0
    /\ prev_opening = 0
    /\ viseme = "CLOSED"
    /\ last_call = "init"
    /\ BusInit
    /\ eye_controller = NoEyeController
    /\ eye_op = [op |-> "init", face_x |-> 0, face_y |-> 0, fail_at |-> 0]
    /\ SERVO_AVAILABLE \in BOOLEAN
    /\ stored_settings \in StoredDocuments
    /\ settings = load_settings(stored_settings)
    /\ jaw_position = 0
    /\ jaw_req = NoJawRequest
    /\ ServerInit

NextControl ==
    \/ HandleControl
    \/ PollTimeout
    \/ ProcessCommand
    \/ SweepWrite

SpecControl == InitControl /\ [][NextControl]_vars

----------------------------------------------------------------------------
(* Sessions started and stopped one after another, with no audio: start and
   stop commands, the session threads and the end of their watchdogs *)

\* The most start and stop commands in one run.
MaxSessionCommands == 3

StartSession == StartCommand(MaxSessionCommands)

StopSession == StopCommand(MaxSessionCommands)

NextSessions ==
    \/ StartSession
    \/ StopSession
    \/ \E s \in SessIds :
          \/ SessSetup(s)
          \/ SessStartSession(s)
          \/ SessLoopExit(s)
          \/ SessClose(s)
          \/ SessForce(s)
          \/ SessForceDone(s)
          \/ WdExit(s)

SpecSessions == Init /\ [][NextSessions]_vars

\* The sessions with their audio and their watchdogs: the start and stop
\* commands, the chunks and the gaps between them, and the watchdog threads.
NextWatchdogs ==
    \/ StartSession
    \/ StopSession
    \/ AudioGap
    \/ \E s \in SessIds :
          \/ SessSetup(s)
          \/ SessStartSession(s)
          \/ OnAudioChunk(s)
          \/ WdExit(s)
          \/ WdCheck(s)
          \/ WdFire(s)
          \/ WdReset(s)
          \/ WdRamp(s)
          \/ WdHold(s)
          \/ WdDone(s)

SpecWatchdogs == Init /\ [][NextWatchdogs]_vars

----------------------------------------------------------------------------
(* The jaw path alone: requests of any opening, and calibration commands *)

\* Openings requested of the jaw (tenths of a percent).
JawOpenings == {0, 10, 30, 50, 400}

InitJaw ==
    /\ audio_mouth_controller = NewController
    /\ opening = 0
    /\ prev_opening = 0
    /\ viseme = "CLOSED"
    /\ last_call = "init"
    /\ BusInit
    /\ EyeInit
    /\ JawInit
    /\ ServerInit

JawRequest ==
    /\ \E o \in JawOpenings : \E outcome \in WriteOutcomes :
          /\ control_jaw_servo_direct("audio", o, outcome)
          /\ jaw_req' = JawRequestRecord(o, outcome)
    /\ UNCHANGED <<trackerVars, eyeVars, settings, stored_settings, serverVars>>

JawCalibrate ==
    /\ CmdSetJaw
    /\ jaw_req' = ForgetAccepted
    /\ UNCHANGED <<trackerVars, eyeVars, busVars, serverVars>>

NextJaw == JawRequest \/ JawCalibrate

SpecJaw == InitJaw /\ [][NextJaw]_vars

----------------------------------------------------------------------------
(* Bounds of the tracker specification *)

\* The longest run of silent chunks fed to the tracker.
MaxSilence == 4

\* Amplitudes fed to the tracker: nan, silence, just below and at the
\* threshold, quiet speech and loud speech (above max_threshold).
Amplitudes == {NaN, 0, 14, 15, 60, 500}

----------------------------------------------------------------------------
(* The tracker alone: the loop of src/test_audio_mouth.py *)

InitTracker ==
    /\ audio_mouth_controller = NewController
    /\ opening = 0
    /\ prev_opening = 0
    /\ viseme = "CLOSED"
    /\ last_call = "init"
    /\ BusInit
    /\ EyeInit
    /\ JawInit
    /\ ServerInit

\* One iteration of the loop: process a chunk, classify the opening.
FeedChunk ==
    \E a \in Amplitudes :
        LET c == ProcessAudioChunk(audio_mouth_controller, a) IN
        /\ c.silence_counter <= MaxSilence
        /\ audio_mouth_controller' = c
        /\ prev_opening' = audio_mouth_controller.current_opening
        /\ opening' = c.current_opening
        /\ viseme' = get_viseme_from_opening(c.current_opening)
        /\ last_call' = "process"
        /\ UNCHANGED <<busVars, eyeVars, jawVars, serverVars>>

CallReset ==
    /\ audio_mouth_controller' = ResetController(audio_mouth_controller)
    /\ prev_opening' = audio_mouth_controller.current_opening
    /\ last_call' = "reset"
    /\ UNCHANGED <<opening, viseme, busVars, eyeVars, jawVars, serverVars>>

NextTracker == FeedChunk \/ CallReset

SpecTracker == InitTracker /\ [][NextTracker]_vars

----------------------------------------------------------------------------
(* get_viseme_from_opening on every opening, from two tracker states *)

LoudController == ProcessAudioChunk(NewController, 500)

InitViseme ==
    /\ audio_mouth_controller \in {NewController, LoudController}
    /\ opening \in 0..Percent(100)
    /\ prev_opening = 0
    /\ viseme = "NONE"
    /\ last_call = "init"
    /\ BusInit
    /\ EyeInit
    /\ JawInit
    /\ ServerInit

ClassifyOpening ==
    /\ last_call = "init"
    /\ viseme' = get_viseme_from_opening(opening)
    /\ last_call' = "viseme"
    /\ UNCHANGED <<audio_mouth_controller, opening, prev_opening, busVars, eyeVars,
                   jawVars, serverVars>>

NextViseme == ClassifyOpening

SpecViseme == InitViseme /\ [][NextViseme]_vars

----------------------------------------------------------------------------
(* The frequency-weighted tracker: EnhancedAudioMouthController *)

\* The amplitudes of the chunks: an empty chunk, silence, speech, and a chunk
\* above max_threshold.
EnhancedAmplitudes == {NaN, 0, 60, 500}

\* process_audio_chunk_enhanced on a chunk of amplitude a in which `band`
\* dominates: the tuple it returns is (opening, viseme).
EnhancedChunk ==
    \E a \in EnhancedAmplitudes : \E band \in BandsOf(a) :
        LET c == ProcessAudioChunk(audio_mouth_controller, a)
            adjusted == FrequencyAdjust(c.current_opening, band)
        IN
        /\ c.silence_counter <= MaxSilence
        /\ audio_mouth_controller' = c
        /\ prev_opening' = audio_mouth_controller.current_opening
        /\ opening' = adjusted
        /\ viseme' = get_viseme_from_opening(adjusted)
        /\ last_call' = "enhanced"
        /\ UNCHANGED <<busVars, eyeVars, jawVars, serverVars>>

NextEnhanced == EnhancedChunk \/ CallReset

SpecEnhanced == InitTracker /\ [][NextEnhanced]_vars

----------------------------------------------------------------------------
(* The eye controller alone, on each rig of the catalog *)

InitEye ==
    /\ audio_mouth_controller = NewController
    /\ opening = 0
    /\ prev_opening = 0
    /\ viseme = "CLOSED"
    /\ last_call = "init"
    /\ BusInit
    /\ JawInit
    /\ ServerInit
    /\ SERVO_AVAILABLE
    /\ eye_controller \in {NewEyeController(k) : k \in DOMAIN CONFIGS}
    /\ eye_op = [op |-> "init", face_x |-> 0, face_y |-> 0, fail_at |-> 0]

EyeTrack ==
    /\ \E x \in FaceXs : \E y \in FaceYs : \E f \in 0..4 :
         \E outcome \in WriteOutcomes :
            TrackPosition("face_loop", x, y, f, outcome)
    /\ UNCHANGED <<trackerVars, jawVars, serverVars>>

EyeCenter ==
    /\ \E failed \in FailSets(DOMAIN Config(eye_controller).channels) :
          \E outcome \in (IF failed = {} THEN {"ok"} ELSE WriteOutcomes \ {"ok"}) :
             CenterEyes("face_loop", failed, outcome)
    /\ UNCHANGED <<trackerVars, jawVars, serverVars>>

NextEye == EyeTrack \/ EyeCenter

SpecEye == InitEye /\ [][NextEye]_vars

----------------------------------------------------------------------------
(* blink_eyes alone, on each rig of the catalog *)

\* The last second of the clock.
MaxBlinkTime == 12

\* The values of random.random(), in thousandths: below blink_probability and not.
Draws == {9, 10}

\* blink_eyes, forced or not, the clock having gone on by dt.
Blink ==
    /\ \E dt \in {0, 1, 5, 6} : \E force \in BOOLEAN : \E draw \in Draws :
       \E failed \in FailSets(BlinkWriteIds(Config(eye_controller))) :
       \E outcome \in (IF failed = {} THEN {"ok"} ELSE WriteOutcomes \ {"ok"}) :
          /\ current_time + dt <= MaxBlinkTime
          /\ current_time' = current_time + dt
          /\ BlinkEyes("face_loop", force, current_time', draw, failed, outcome)
    /\ UNCHANGED <<trackerVars, jawVars, is_running, is_speaking, fired_since_speech, audio_stale, sess,
                   face_tracking_enabled, face_tracker, open_cameras, face_tracking_thread,
                   disconnect_seen, chunks, commands, face_loop, face_tracking_status,
                   detectorVars, catalogVars, controlVars, last_face_position,
                   face_lost_time, tracking_data>>

NextBlink == Blink

SpecBlink == InitEye /\ [][NextBlink]_vars

----------------------------------------------------------------------------
(* get_closest_face on every short list of detections in a 640 x 480 frame *)

\* The most detections in one frame.
MaxFaces == 3

\* Detections: centred; 10 px right and 10 px left of the centre; 50 px
\* away; of odd size, 9 px away; and in the corner of the frame.
Detections ==
    {<<270, 190, 100, 100>>, <<280, 190, 100, 100>>, <<260, 190, 100, 100>>,
     <<300, 230, 100, 100>>, <<279, 190, 101, 101>>, <<0, 0, 30, 30>>}

RECURSIVE SeqsUpTo(_, _)
SeqsUpTo(S, n) ==
    IF n = 0 THEN {<<>>}
    ELSE LET P == SeqsUpTo(S, n - 1)
         IN  P \cup {Append(p, x) : p \in {q \in P : Len(q) = n - 1}, x \in S}

InitFaces ==
    /\ audio_mouth_controller = NewController
    /\ opening = 0
    /\ prev_opening = 0
    /\ viseme = "CLOSED"
    /\ last_call = "init"
    /\ BusInit
    /\ EyeInit
    /\ JawInit
    /\ SERVO_AVAILABLE
    /\ ServerIdle
    /\ faces \in SeqsUpTo(Detections, MaxFaces)
    /\ closest_face = NotCalled
    /\ CatalogInit
    /\ FaceTrackerInit
    /\ BlinkInit

\* track_face, lines 128-129: the detections of a frame go to get_closest_face.
SelectFace ==
    /\ closest_face = NotCalled
    /\ closest_face' = get_closest_face(faces, frame_width, frame_height)
    /\ UNCHANGED <<trackerVars, busVars, eyeVars, jawVars, faces, is_running,
                   is_speaking, fired_since_speech, audio_stale, sess, face_tracking_enabled, face_tracker, open_cameras,
                   face_tracking_thread, disconnect_seen, chunks, commands, face_loop,
                   face_tracking_status, catalogVars, blinkVars, controlVars, lossVars>>

NextFaces == SelectFace

SpecFaces == InitFaces /\ [][NextFaces]_vars

----------------------------------------------------------------------------
(* track_face over a sequence of frames: src/src/face_tracker.py *)

\* The latest time of a track_face call.
MaxTime == 4

\* The detections of one frame: none, one, or two of them.
FrameFaces == SeqsUpTo(Detections, 2)

InitLoss ==
    /\ audio_mouth_controller = NewController
    /\ opening = 0
    /\ prev_opening = 0
    /\ viseme = "CLOSED"
    /\ last_call = "init"
    /\ BusInit
    /\ EyeInit
    /\ JawInit
    /\ SERVO_AVAILABLE
    /\ ServerIdle
    /\ faces = <<>>
    /\ closest_face = NotCalled
    /\ CatalogInit
    /\ FaceTrackerInit
    /\ BlinkInit

\* track_face (lines 118-164) on a frame with the detections fs, the clock
\* having gone on by dt.
TrackFace ==
    \E dt \in 0..2 : \E fs \in FrameFaces :
       LET face == get_closest_face(fs, frame_width, frame_height) IN
       /\ current_time + dt <= MaxTime
       /\ current_time' = current_time + dt
       /\ faces' = fs
       /\ closest_face' = face
       /\ IF face # NoFace THEN FaceFound(face) ELSE FaceLost(current_time')
       /\ UNCHANGED <<trackerVars, busVars, eyeVars, jawVars, is_running, is_speaking, fired_since_speech,
                      audio_stale, sess, face_tracking_enabled, face_tracker, open_cameras,
                      face_tracking_thread, disconnect_seen, chunks, commands, face_loop,
                      face_tracking_status, catalogVars, blinkVars, controlVars>>

\* track_face with no frame from the camera (lines 123-125).
TrackNoFrame ==
    /\ tracking_data # NoData
    /\ tracking_data' = NoData
    /\ UNCHANGED <<trackerVars, busVars, eyeVars, jawVars, is_running, is_speaking, fired_since_speech,
                   audio_stale, sess, face_tracking_enabled, face_tracker, open_cameras,
                   face_tracking_thread, disconnect_seen, chunks, commands, face_loop,
                   face_tracking_status, detectorVars, catalogVars, blinkVars, controlVars,
                   last_face_position, face_lost_time, current_time>>

NextLoss == TrackFace \/ TrackNoFrame

SpecLoss == InitLoss /\ [][NextLoss]_vars

----------------------------------------------------------------------------
(* get_config on rig names: src/src/servo_config.py *)

\* The capital of a small letter.
UpperOf ==
    [a |-> "A", e |-> "E", g |-> "G", i |-> "I", l |-> "L", m |-> "M", n |-> "N",
     o |-> "O", p |-> "P", r |-> "R", s |-> "S", v |-> "V"]

\* Every way of writing the letters of `word` in small letters and capitals.
RECURSIVE CaseVariants(_)
CaseVariants(word) ==
    IF word = <<>> THEN {<<>>}
    ELSE {<<c>> \o rest : c \in {Head(word), UpperOf[Head(word)]},
                          rest \in CaseVariants(Tail(word))}

\* The names passed to get_config: the keys inmoov and simple in every letter
\* case, original in three, and names that are in no case a key.
ConfigNames ==
    CaseVariants(Spelling.inmoov) \cup CaseVariants(Spelling.simple)
    \cup {Spelling.original,
          <<"O", "r", "i", "g", "i", "n", "a", "l">>,
          <<"O", "R", "I", "G", "I", "N", "A", "L">>}
    \cup {<<>>, <<"i", "n", "m", "o", "o">>, <<"i", "n", "m", "o", "o", "v", "s">>,
          <<" ", "i", "n", "m", "o", "o", "v">>, <<"S", "I", "M", "P", "L", "E", "_">>,
          <<"h", "e", "a", "d">>, <<"H", "E", "X">>, <<"i", "n", "m", "0", "0", "v">>}

InitConfig ==
    /\ audio_mouth_controller = NewController
    /\ opening = 0
    /\ prev_opening = 0
    /\ viseme = "CLOSED"
    /\ last_call = "init"
    /\ BusInit
    /\ EyeInit
    /\ JawInit
    /\ SERVO_AVAILABLE
    /\ ServerIdle
    /\ faces = <<>>
    /\ closest_face = NotCalled
    /\ servo_config_name \in ConfigNames
    /\ servo_config = NotLoaded
    /\ FaceTrackerInit
    /\ BlinkInit

\* servo_config = get_config(servo_config_name)
GetConfig ==
    /\ servo_config = NotLoaded
    /\ servo_config' = get_config(servo_config_name)
    /\ UNCHANGED <<trackerVars, busVars, eyeVars, jawVars, is_running, is_speaking, fired_since_speech,
                   audio_stale, sess, face_tracking_enabled, face_tracker, open_cameras,
                   face_tracking_thread, disconnect_seen, chunks, commands, face_loop,
                   face_tracking_status, detectorVars, lossVars, blinkVars, controlVars, servo_config_name>>

NextConfig == GetConfig

SpecConfig == InitConfig /\ [][NextConfig]_vars

----------------------------------------------------------------------------
(* Claims about the tracker *)

\* C1: after every process_audio_chunk call, whatever the amplitudes and the
\* resets before it, the returned value is the tracker's current_opening and
\* lies within [0,100] percent.
C1_OpeningInRange ==
    /\ audio_mouth_controller.current_opening \in 0..Percent(100)
    /\ last_call = "process" =>
          /\ opening = audio_mouth_controller.current_opening
          /\ opening >= 0
          /\ opening <= Percent(100)

\* A loud chunk has driven the opening above 90 percent, on its way to the
\* upper bound.
C1_Witness ==
    /\ last_call = "process"
    /\ opening > Percent(90)
    /\ audio_mouth_controller.target_opening = Percent(100)

\* The ladder written as disjoint intervals, every boundary in the higher
\* category.
LadderInterval(v, o) ==
    /\ v = "CLOSED"      <=> o < Percent(5)
    /\ v = "NARROW"      <=> (Percent(5) <= o /\ o < Percent(20))
    /\ v = "ROUNDED"     <=> (Percent(20) <= o /\ o < Percent(35))
    /\ v = "MEDIUM"      <=> (Percent(35) <= o /\ o < Percent(50))
    /\ v = "MEDIUM_OPEN" <=> (Percent(50) <= o /\ o < Percent(70))
    /\ v = "WIDE"        <=> Percent(70) <= o

\* C2: a get_viseme_from_opening call leaves the tracker as it was, and its
\* result is the interval ladder of its argument alone: <5 CLOSED, <20
\* NARROW, <35 ROUNDED, <50 MEDIUM, <70 MEDIUM_OPEN, otherwise WIDE, the
\* boundaries 5, 20, 35, 50, 70 in the higher category.
C2_VisemeLadder ==
    [][last_call' = "viseme" =>
          /\ audio_mouth_controller' = audio_mouth_controller
          /\ opening' = opening
          /\ LadderInterval(viseme', opening)]_vars

\* The boundary 20 percent has been classified, from a tracker that is not
\* in its initial state.
C2_Witness ==
    /\ last_call = "viseme"
    /\ opening = Percent(20)
    /\ viseme = "ROUNDED"
    /\ audio_mouth_controller = LoudController

\* The window holds three amplitudes that are each below min_threshold.
ThreeQuietChunks ==
    LET h == audio_mouth_controller.amplitude_history IN
    /\ Len(h) = 3
    /\ \A i \in 1..3 : h[i] # NaN /\ h[i] < min_threshold

\* C10 as stated: after three consecutive chunks whose own amplitude is below
\* min_threshold, the opening returned for the third is 0.
C10_AsStated ==
    (last_call = "process" /\ ThreeQuietChunks) => opening = 0

\* C10 (amended): after three consecutive chunks whose smoothed amplitude (the
\* mean of the window) is below min_threshold, which is what silence_counter
\* counts, the opening returned for the third is exactly 0.
C10_SmoothedSilence ==
    (last_call = "process" /\ audio_mouth_controller.silence_counter >= 3) =>
        /\ opening = 0
        /\ audio_mouth_controller.current_opening = 0

\* The third smoothed-silent chunk arrived while the mouth was still open.
C10_Witness ==
    /\ last_call = "process"
    /\ audio_mouth_controller.silence_counter = 3
    /\ prev_opening > 0
    /\ opening = 0

----------------------------------------------------------------------------
(* Claims about the jaw deadband *)

\* C3: with the servo available and no write raising, once a jaw request has
\* been written, a following request is written exactly when its target
\* angle differs by more than jaw_servo_min_change from the angle of the last
\* request that was written (which is the angle the jaw channel holds): a
\* request within the deadband of the last written one produces no write, and
\* small changes accumulate until one is written.
C3_Deadband ==
    [][(/\ settings' = settings
        /\ jaw_req'.target # NoAngle
        /\ jaw_req.accepted # NoAngle
        /\ SERVO_AVAILABLE
        /\ ~jaw_req'.failed)
       => /\ servo[JAW_CHANNEL] = clamp_angle(jaw_req.accepted)
          /\ jaw_req'.written <=>
                Abs(jaw_req'.target - jaw_req.accepted)
                    > Deg(settings.jaw_servo_min_change)
          /\ jaw_req'.written => servo'[JAW_CHANNEL] = clamp_angle(jaw_req'.target)
          /\ ~jaw_req'.written => servo' = servo]_vars

\* A request was written, the next one (within the deadband) was not, and the
\* one after it was written although it is within the deadband of the
\* suppressed one.
C3_Witness ==
    /\ write_failures = 0
    /\ jaw_req.written
    /\ ~jaw_req.prev_written
    /\ jaw_req.prev_accepted # NoAngle
    /\ jaw_req.prev_target # NoAngle
    /\ jaw_req.prev_target # jaw_req.prev_accepted
    /\ Abs(jaw_req.target - jaw_req.prev_target) <= Deg(settings.jaw_servo_min_change)

----------------------------------------------------------------------------
(* Claims about the eye controller *)

\* The batch of the track_position call recorded in eye_op.
LastBatch ==
    angles_to_set(Config(eye_controller), eye_op.face_x, eye_op.face_y,
                  frame_width, frame_height)

\* C8: a track_position call either writes and records every axis of its
\* batch, or changes no channel and no recorded angle.
C8_AllOrNothing ==
    [][eye_op'.op = "track" =>
         LET cfg == Config(eye_controller)
             batch == angles_to_set(cfg, eye_op'.face_x, eye_op'.face_y,
                                    frame_width, frame_height)
         IN  \/ \A i \in 1..Len(batch) :
                   /\ servo'[get_channel(cfg, batch[i].name)] = BatchAngle(cfg, batch[i])
                   /\ eye_controller'.current_angles[batch[i].name]
                         = BatchAngle(cfg, batch[i])
             \/ /\ servo' = servo
                /\ eye_controller'.current_angles = eye_controller.current_angles]_vars

\* A successful track_position call on the two-eye rig.
TrackedTwoEyes ==
    /\ eye_op.op = "track"
    /\ eye_op.fail_at = 0
    /\ eye_controller.config = "inmoov"

RangeMin(n) == get_angle_range(Config(eye_controller), n)[1]

RangeMax(n) == get_angle_range(Config(eye_controller), n)[2]

RangeMid(n) == (RangeMin(n) + RangeMax(n)) \div 2

Recorded(n) == eye_controller.current_angles[n]

\* C9 as stated: centre to the midpoint on every axis, edges to the bounds,
\* X inverted, and both eyes' Y axes in the same direction.
C9_AsStated ==
    TrackedTwoEyes =>
        /\ \A n \in {"left_eye_x", "right_eye_x"} :
              /\ eye_op.face_x = frame_width \div 2 => Recorded(n) = RangeMid(n)
              /\ eye_op.face_x = 0 => Recorded(n) = RangeMax(n)
              /\ eye_op.face_x = frame_width => Recorded(n) = RangeMin(n)
        /\ \A n \in {"left_eye_y", "right_eye_y"} :
              eye_op.face_y = frame_height \div 2 => Recorded(n) = RangeMid(n)
        /\ eye_op.face_y \in {0, frame_height} =>
              \/ \A n \in {"left_eye_y", "right_eye_y"} : Recorded(n) = RangeMin(n)
              \/ \A n \in {"left_eye_y", "right_eye_y"} : Recorded(n) = RangeMax(n)

\* C9 (amended): on the two-eye rig, both X axes and the left Y axis map the
\* frame centre to the midpoint of their range and the frame edges to the
\* bounds, X inverted (0 to max, width to min) and left Y direct (0 to min,
\* height to max); the right Y axis is mapped in the opposite direction and
\* shifted by right_eye_y_offset before clamping (0 to max, height to
\* min + offset, centre to midpoint + offset).
C9_GazeGeometry ==
    TrackedTwoEyes =>
        /\ \A n \in {"left_eye_x", "right_eye_x"} :
              /\ eye_op.face_x = frame_width \div 2 => Recorded(n) = RangeMid(n)
              /\ eye_op.face_x = 0 => Recorded(n) = RangeMax(n)
              /\ eye_op.face_x = frame_width => Recorded(n) = RangeMin(n)
        /\ eye_op.face_y = frame_height \div 2 =>
              /\ Recorded("left_eye_y") = RangeMid("left_eye_y")
              /\ Recorded("right_eye_y")
                    = RangeMid("right_eye_y") + Deg(right_eye_y_offset)
        /\ eye_op.face_y = 0 =>
              /\ Recorded("left_eye_y") = RangeMin("left_eye_y")
              /\ Recorded("right_eye_y") = RangeMax("right_eye_y")
        /\ eye_op.face_y = frame_height =>
              /\ Recorded("left_eye_y") = RangeMax("left_eye_y")
              /\ Recorded("right_eye_y")
                    = RangeMin("right_eye_y") + Deg(right_eye_y_offset)

\* A face at the bottom-left corner has been tracked on the two-eye rig.
C9_Witness ==
    /\ TrackedTwoEyes
    /\ eye_op.face_x = 0
    /\ eye_op.face_y = frame_height
    /\ Recorded("left_eye_x") = Deg(145)
    /\ Recorded("right_eye_y") = Deg(62)

----------------------------------------------------------------------------
(* Claims about the loops that share the jaw *)

\* A session's watchdog is between the first and the last of its closing
\* writes.
WatchdogClosing(s) ==
    \/ sess[s].wd = "ramp" /\ sess[s].wn >= 1
    \/ sess[s].wd = "hold" /\ sess[s].wn < hold_writes

\* This step attempts a write on the jaw channel.
JawWriteStep == last_write' # last_write /\ last_write'.ch = JAW_CHANNEL

\* C4: the jaw channel has at most one writer: while a watchdog is performing
\* its closing writes, no other loop writes the jaw, and a watchdog writes
\* only after it has itself set is_speaking false (it is in its closing
\* sequence).
C4_SingleJawWriter ==
    [][JawWriteStep =>
          /\ (\E s \in SessIds : WatchdogClosing(s)) => last_write'.by = "watchdog"
          /\ last_write'.by = "watchdog" =>
                \E s \in SessIds : sess[s].wd \in {"ramp", "hold"}]_vars

\* The jaw is at the configured closed angle.
JawAtCloseAngle == servo[JAW_CHANNEL] = clamp_angle(Deg(settings.jaw_close_angle))

\* C5: while a session is running, if is_speaking is true and no audio chunk
\* has arrived for more than 500 ms, the session's watchdog goes on to
\* declare speech ended and close the jaw: its thread has a step to take.
C5_WatchdogCloses ==
    \A s \in SessIds :
       (sess[s].pc = "running" /\ is_running /\ is_speaking /\ audio_stale)
          => ENABLED WatchdogStep(s)

\* C6: a session that was stopped ends, on the normal path and on the
\* exception path, with the jaw at the configured jaw_close_angle, and the
\* jaw stays there afterwards.
C6_StopClosesJaw ==
    [][\A s \in SessIds :
          (sess'[s].pc \in {"stopped", "aborted"} /\ SERVO_AVAILABLE')
             => JawAtCloseAngle']_vars

\* C7: after a write has failed with a disconnection-shaped error, the
\* servo-available flag is cleared and no loop attempts a write again.
C7_NoWriteAfterDisconnect ==
    [][disconnect_seen => (~SERVO_AVAILABLE /\ last_write' = last_write)]_vars

----------------------------------------------------------------------------
(* Claims about reset *)

\* The chunk just processed was the first after a reset (or a construction)
\* and was silent: the window holds it alone.
FirstChunkSilent(c) ==
    /\ Len(c.amplitude_history) = 1
    /\ c.amplitude_history[1] # NaN
    /\ c.amplitude_history[1] < min_threshold

\* C11: from any reachable tracker state, reset() leaves the state of a newly
\* constructed tracker; a second reset() changes nothing; and one silent
\* chunk after reset() returns opening exactly 0.
C11_ResetRestores ==
    [][/\ last_call' = "reset" => audio_mouth_controller' = NewController
       /\ (last_call = "reset" /\ last_call' = "reset")
             => audio_mouth_controller' = audio_mouth_controller
       /\ ResetController(ResetController(audio_mouth_controller))
             = ResetController(audio_mouth_controller)
       /\ (last_call = "reset" /\ last_call' = "process"
             /\ FirstChunkSilent(audio_mouth_controller'))
             => opening' = 0]_vars

\* reset() has just been called on a tracker whose mouth was open.
C11_Witness ==
    /\ last_call = "reset"
    /\ prev_opening > Percent(30)
    /\ audio_mouth_controller = NewController

----------------------------------------------------------------------------
(* Claims about the face detector *)

\* Detection i of the list is at the least distance from the frame centre,
\* and is the first that is.
FirstNearest(fs, i) ==
    /\ \A j \in 1..Len(fs) :
          Distance2(fs[i], frame_width, frame_height)
             <= Distance2(fs[j], frame_width, frame_height)
    /\ \A j \in 1..(i - 1) :
          Distance2(fs[j], frame_width, frame_height)
             > Distance2(fs[i], frame_width, frame_height)

\* C12: get_closest_face returns the detection whose centre is nearest the
\* frame centre, the first in list order among those at the least distance,
\* and no face for an empty list.
C12_ClosestFace ==
    closest_face # NotCalled =>
       IF faces = <<>> THEN closest_face = NoFace
       ELSE \E i \in 1..Len(faces) :
               FirstNearest(faces, i) /\ closest_face = faces[i]

\* The call was made on three detections, two of them tied at the least
\* distance, with the farther one listed first.
C12_Witness ==
    /\ closest_face # NotCalled
    /\ Len(faces) = 3
    /\ Distance2(faces[1], frame_width, frame_height)
          > Distance2(faces[2], frame_width, frame_height)
    /\ Distance2(faces[2], frame_width, frame_height)
          = Distance2(faces[3], frame_width, frame_height)
    /\ faces[2] # faces[3]
    /\ closest_face = faces[2]

----------------------------------------------------------------------------
(* Claims about stopping face tracking *)

\* Every eye and eyelid channel of the rig is at its default angle.
EyesAtDefault ==
    \A n \in DOMAIN InMoovHeadConfig.channels :
       servo[get_channel(InMoovHeadConfig, n)] = get_default_angle(InMoovHeadConfig, n)

\* stop_face_tracking has completed and has recentred the eyes.
StopCompleted ==
    /\ ~face_tracking_enabled
    /\ face_tracker = "none"
    /\ eye_controller = NoEyeController
    /\ EyesAtDefault

\* C13: a stop_face_tracking whose writes all succeed releases the camera
\* and leaves every eye and eyelid channel at the rig default, and once it
\* has completed no write of the face loop moves an eye channel away from
\* its default.
C13_StopRecentres ==
    [][/\ (/\ commands' # commands
           /\ ~face_tracking_enabled'
           /\ eye_controller # NoEyeController
           /\ write_failures' = write_failures)
          => (face_tracker' = "none" /\ EyesAtDefault')
       /\ (StopCompleted /\ last_write'.by = "face_loop" /\ last_write' # last_write)
          => EyesAtDefault']_vars

----------------------------------------------------------------------------
(* Claims about the polling loops *)

\* C14: a step in which a servo write raises ends no polling loop: the face
\* tracking thread goes on and the speech-end watchdog of every session is
\* still alive after it.
C14_LoopsSurvive ==
    [][write_failures' > write_failures
          => /\ face_tracking_thread => face_tracking_thread'
             /\ \A s \in SessIds : sess'[s].wd # "dead"]_vars

----------------------------------------------------------------------------
(* Claims about the angles written *)

\* The range configured for a channel: the rig's range of the eye or eyelid
\* on it, and the servo's 0 to 180 degrees for the jaw.
ChannelRange(ch) ==
    IF \E n \in DOMAIN InMoovHeadConfig.channels : get_channel(InMoovHeadConfig, n) = ch
    THEN get_angle_range(InMoovHeadConfig,
                         CHOOSE n \in DOMAIN InMoovHeadConfig.channels :
                            get_channel(InMoovHeadConfig, n) = ch)
    ELSE <<Deg(0), Deg(180)>>

\* C15: whatever the path of a write, the angle a channel receives is within
\* the range configured for the channel.
C15_WritesInRange ==
    [][\A ch \in Channels :
          servo'[ch] # servo[ch]
             => /\ ChannelRange(ch)[1] <= servo'[ch]
                /\ servo'[ch] <= ChannelRange(ch)[2]]_vars

----------------------------------------------------------------------------
(* Claims about the position record *)

\* No loop is in the middle of a sequence of writes.
NoWriteInProgress ==
    /\ face_loop.pc = "top"
    /\ \A s \in SessIds : /\ sess[s].wd \notin {"fired", "ramp", "hold"}
                          /\ sess[s].pc \notin {"stopping", "force"}

\* C16: a step that changes the angle of a channel, in which no write fails
\* and which leaves no write in progress, also leaves the position recorded for the channel at that angle:
\* jaw_position for the jaw, current_angles for the channels of the
\* EyeController.
C16_RecordFollowsWrite ==
    [][(NoWriteInProgress' /\ write_failures' = write_failures) =>
          /\ servo'[JAW_CHANNEL] # servo[JAW_CHANNEL]
                => servo'[JAW_CHANNEL] = clamp_angle(JawAngle(settings', jaw_position'))
          /\ \A n \in DOMAIN InMoovHeadConfig.channels :
                (/\ eye_controller' # NoEyeController
                 /\ servo'[get_channel(InMoovHeadConfig, n)]
                       # servo[get_channel(InMoovHeadConfig, n)])
                   => eye_controller'.current_angles[n]
                         = servo'[get_channel(InMoovHeadConfig, n)]]_vars

----------------------------------------------------------------------------
(* Claims about the easing *)

\* The step the easing makes from cur when the target is gap below it, and
\* when the target is gap above it.
ClosingStep(cur, gap) == cur - Ease(cur, cur - gap)

OpeningStep(cur, gap) == Ease(cur, cur + gap) - cur

\* The gap between the target and the opening that the last chunk eased.
LastGap == Abs(audio_mouth_controller.target_opening - prev_opening)

\* C17: for the gap a chunk has to ease, and for every gap up to it, the
\* step made when closing is at least the step made when opening.
C17_ClosingNotSlower ==
    \A gap \in {LastGap, LastGap \div 2, 1, 2, 3} :
       ClosingStep(prev_opening, gap) >= OpeningStep(prev_opening, gap)

\* A chunk closed the mouth part of the way, by more than an opening step.
C17_Witness ==
    /\ last_call = "process"
    /\ audio_mouth_controller.target_opening < prev_opening
    /\ opening < prev_opening
    /\ opening > audio_mouth_controller.target_opening
    /\ prev_opening - opening = ClosingStep(prev_opening, LastGap)
    /\ ClosingStep(prev_opening, LastGap) > OpeningStep(prev_opening, LastGap)

----------------------------------------------------------------------------
(* Claims about a run of loud chunks *)

\* Every amplitude of the window is above max_threshold.
AllLoud(h) == h # <<>> /\ \A i \in 1..Len(h) : h[i] > max_threshold

\* The openings 40, 64 and 78.4 percent.
LoudOpenings == <<400, 640, 784>>

\* C18: while the window holds loud chunks only, each further loud chunk has
\* the full target, does not lower the opening, raises it as long as the
\* gap to 100 is more than the two tenths the arithmetic resolves, and keeps
\* the viseme WIDE once the opening is 70 or more; the first three chunks
\* after a reset give the openings 40, 64 and 78.4, so the third is WIDE.
C18_LoudRun ==
    [][(last_call' = "process" /\ AllLoud(audio_mouth_controller'.amplitude_history))
          => LET cur == audio_mouth_controller.current_opening
                 h   == audio_mouth_controller.amplitude_history
                 n   == Len(audio_mouth_controller'.amplitude_history)
             IN  /\ audio_mouth_controller'.target_opening = Percent(100)
                 /\ opening' >= cur
                 /\ opening' <= Percent(100)
                 /\ (Percent(100) - cur > 2) => opening' > cur
                 /\ (cur >= Percent(70)) => viseme' = "WIDE"
                 /\ (Len(h) < n)
                       => /\ opening' = LoudOpenings[n]
                          /\ (n = 3) => viseme' = "WIDE"
                          /\ (n < 3) => viseme' # "WIDE"]_vars

\* The third loud chunk after a reset has been processed.
C18_Witness ==
    /\ last_call = "process"
    /\ audio_mouth_controller.amplitude_history = <<500, 500, 500>>
    /\ prev_opening = Percent(64)
    /\ opening = 784
    /\ viseme = "WIDE"

----------------------------------------------------------------------------
(* Claims about a silent chunk *)

\* The step is the audio callback processing a silent chunk on a tracker
\* whose opening is 0.
SilentChunkAtZero ==
    /\ chunks' # chunks
    /\ last_call' = "process"
    /\ audio_mouth_controller.current_opening = 0
    /\ audio_mouth_controller'.amplitude_history
          = DequeAppend(audio_mouth_controller.amplitude_history, 0)

\* C19: the audio callback processing a silent chunk on a tracker whose
\* opening is 0 leaves the opening at 0 and the viseme CLOSED, writes no
\* angle to the jaw and leaves jaw_position as it was.
C19_SilentChunkNoWrite ==
    [][SilentChunkAtZero
          => /\ opening' = 0
             /\ viseme' = "CLOSED"
             /\ last_write' = last_write
             /\ servo' = servo
             /\ jaw_position' = jaw_position]_vars

----------------------------------------------------------------------------
(* Claims about the rig catalog *)

\* The name is the catalog key k written in some letter case.
NamesKey(name, k) ==
    /\ Len(name) = Len(Spelling[k])
    /\ \A i \in 1..Len(name) :
          name[i] \in {Spelling[k][i], UpperOf[Spelling[k][i]]}

\* C20: get_config returns the rig of the catalog key the name is, in
\* whatever letter case it is written, and the inmoov rig for a name that is
\* no catalog key.
C20_GetConfigFallback ==
    servo_config # NotLoaded
       => /\ \A k \in DOMAIN CONFIGS :
               NamesKey(servo_config_name, k) => servo_config = CONFIGS[k]
          /\ (\A k \in DOMAIN CONFIGS : ~NamesKey(servo_config_name, k))
               => servo_config = InMoovHeadConfig

\* A key written with capitals returned its rig, not the default one.
C20_Witness ==
    /\ servo_config_name = <<"S", "i", "M", "p", "l", "e">>
    /\ servo_config = SimpleConfig
    /\ servo_config # InMoovHeadConfig

\* A name that is no key returned the default rig.
C20_WitnessUnknown ==
    /\ servo_config_name = <<"h", "e", "a", "d">>
    /\ servo_config = InMoovHeadConfig

----------------------------------------------------------------------------
(* Claims about the rigs of the catalog *)

\* The angle, in degrees, is within the range of the axis n of the rig.
InRangeOf(cfg, n, angle) ==
    /\ get_angle_range(cfg, n)[1] <= Deg(angle)
    /\ Deg(angle) <= get_angle_range(cfg, n)[2]

\* C21: the rig get_config returns has pairwise distinct channel ids, its
\* default angles and its closed-eyelid angles are within the range of
\* their axis, and every axis with a default or a closed-eyelid angle is a
\* declared channel.
C21_RigWellFormed ==
    servo_config # NotLoaded
       => LET cfg == servo_config IN
          /\ \A n, m \in DOMAIN cfg.channels :
                n # m => get_channel(cfg, n) # get_channel(cfg, m)
          /\ \A n \in DOMAIN cfg.default_angles :
                n \in DOMAIN cfg.channels /\ InRangeOf(cfg, n, cfg.default_angles[n])
          /\ \A n \in DOMAIN cfg.blink_angles :
                n \in DOMAIN cfg.channels /\ InRangeOf(cfg, n, cfg.blink_angles[n])
          /\ \A n \in DOMAIN cfg.angle_ranges : n \in DOMAIN cfg.channels

\* Each of the three rigs has been returned; here the shared-axis one.
C21_Witness ==
    /\ servo_config = OriginalConfig
    /\ servo_config_name = <<"O", "R", "I", "G", "I", "N", "A", "L">>
    /\ DOMAIN servo_config.blink_angles # {}

----------------------------------------------------------------------------
(* Claims about a server without servos *)

\* No servo kit was found at startup: the flag is false and no write has
\* failed with a disconnection.
NoServoAtStartup == ~SERVO_AVAILABLE /\ ~disconnect_seen

\* C22: without a servo kit at startup no write is ever attempted, no
\* EyeController is made, and neither the watchdog nor a session ends by an
\* error of a write.
C22_NoServoNoWrite ==
    NoServoAtStartup
       => /\ last_write = NoWrite
          /\ write_failures = 0
          /\ \A ch \in Channels : servo[ch] = NoAngle
          /\ eye_controller = NoEyeController
          /\ jaw_position = 0
          /\ \A s \in SessIds : sess[s].wd # "dead" /\ sess[s].pc # "aborted"

\* Without servos a session processed a loud chunk, the watchdog declared
\* the speech ended, and the session was stopped.
C22_Witness ==
    /\ NoServoAtStartup
    /\ opening > 0
    /\ \E s \in SessIds : sess[s].pc = "stopped" /\ sess[s].wd = "exit"
    /\ audio_mouth_controller = NewController

----------------------------------------------------------------------------
(* Claims about a camera that does not open *)

\* C23: a start_face_tracking call that fails leaves face tracking not
\* enabled and is followed by a status update saying so.
C23_CameraFailureReported ==
    [][(/\ face_tracking_status' # face_tracking_status
        /\ face_tracking_status'.call = "start"
        /\ ~face_tracking_status'.result)
          => /\ ~face_tracking_enabled'
             /\ face_tracking_status'.shown = "disabled"]_vars

----------------------------------------------------------------------------
(* Claims about overshoot *)

\* b lies between a and c, the ends included.
Between(a, b, c) == (a <= b /\ b <= c) \/ (c <= b /\ b <= a)

\* C24: after a chunk the opening lies between the opening before it and
\* the target, and so does the eased opening for every close_speed from 0
\* to 1 in tenths; with the speed of the server the latter is the easing
\* the tracker applies.
C24_NoOvershoot ==
    last_call = "process"
       => LET tgt == audio_mouth_controller.target_opening IN
          /\ Between(prev_opening, opening, tgt)
          /\ \A speed \in 0..10 :
                Between(prev_opening, EaseWith(prev_opening, tgt, speed), tgt)
          /\ EaseWith(prev_opening, tgt, close_speed) = Ease(prev_opening, tgt)

\* A chunk moved the opening part of the way down to a lower target.
C24_Witness ==
    /\ last_call = "process"
    /\ audio_mouth_controller.target_opening > 0
    /\ audio_mouth_controller.target_opening < opening
    /\ opening < prev_opening

----------------------------------------------------------------------------
(* Claims about the gaze axes *)

\* The X and Y gaze axes a rig declares.
GazeAxes(cfg) ==
    DOMAIN cfg.channels \ {"left_upper_lid", "left_lower_lid", "right_upper_lid",
                           "right_lower_lid"}

\* C25: a track_position call none of whose writes fails gives every gaze
\* axis the rig declares a target and records an angle for it.
C25_EveryGazeAxisTracked ==
    [][(eye_op'.op = "track" /\ eye_op'.fail_at = 0 /\ eye_controller' # NoEyeController)
          => LET cfg   == Config(eye_controller')
                 batch == angles_to_set(cfg, eye_op'.face_x, eye_op'.face_y,
                                        frame_width, frame_height)
             IN  \A n \in GazeAxes(cfg) :
                    /\ \E i \in 1..Len(batch) : batch[i].name = n
                    /\ eye_controller'.current_angles[n] # NoAngle]_vars

----------------------------------------------------------------------------
(* Claims about the loss of the face *)

\* C26: a tick that finds a face clears the lost timestamp and remembers
\* the centre of the face; a tick without a face sets the timestamp if it is
\* the first of its run (time_lost 0) and keeps it otherwise, reports the
\* time since the timestamp, which does not decrease during the run, and
\* reports and keeps the remembered centre; a tick without a frame changes
\* neither.
C26_FaceLoss ==
    [][LET d == tracking_data' IN
       /\ (d.frame /\ d.found)
             => /\ face_lost_time' = NoTime
                /\ closest_face' # NoFace
                /\ last_face_position' = get_face_center(closest_face')
                /\ d.position = last_face_position'
       /\ (d.frame /\ ~d.found)
             => /\ closest_face' = NoFace
                /\ (face_lost_time = NoTime)
                      => (face_lost_time' = current_time' /\ d.time_lost = 0)
                /\ (face_lost_time # NoTime) => face_lost_time' = face_lost_time
                /\ d.time_lost = current_time' - face_lost_time'
                /\ d.time_lost >= 0
                /\ (tracking_data.frame /\ ~tracking_data.found)
                      => d.time_lost >= tracking_data.time_lost
                /\ d.position = last_face_position
                /\ last_face_position' = last_face_position
       /\ (~d.frame)
             => /\ face_lost_time' = face_lost_time
                /\ last_face_position' = last_face_position]_vars

\* A later tick of a run of lost ticks, after a face had been found.
C26_Witness ==
    /\ tracking_data.frame
    /\ ~tracking_data.found
    /\ tracking_data.time_lost >= 2
    /\ tracking_data.position # NoPosition
    /\ face_lost_time > 0

----------------------------------------------------------------------------
(* Claims about blinking *)

\* C27: a blink_eyes call that is not forced blinks only when more than
\* blink_interval has passed since last_blink_time and the random draw is
\* below blink_probability; a forced call always blinks; a call that does
\* not blink writes no channel and leaves last_blink_time as it was.
C27_BlinkDecision ==
    [][blink_op' # blink_op
         => LET b == blink_op' IN
            /\ (~b.force /\ b.blinked)
                  => /\ b.now - last_blink_time > blink_interval
                     /\ b.draw < blink_probability
            /\ b.force => b.blinked
            /\ b.blinked => last_blink_time' = b.now
            /\ (b.blinked /\ has_blink_angles(Config(eye_controller)))
                  => last_write' # last_write
            /\ ~b.blinked => /\ servo' = servo
                             /\ last_write' = last_write
                             /\ write_failures' = write_failures
                             /\ eye_controller' = eye_controller
                             /\ last_blink_time' = last_blink_time]_vars

\* After an earlier blink, a call that was not forced came exactly
\* blink_interval later with a draw below blink_probability, and did not blink.
C27_Witness ==
    /\ ~blink_op.force
    /\ ~blink_op.blinked
    /\ last_blink_time > 0
    /\ blink_op.now - last_blink_time = blink_interval
    /\ blink_op.draw < blink_probability

\* The eyelids of the controller's rig are at their default angles.
LidsAtDefault ==
    LET cfg == Config(eye_controller) IN
    \A i \in 1..Len(cfg.blink_order) :
       servo[get_channel(cfg, cfg.blink_order[i])]
          = get_default_angle(cfg, cfg.blink_order[i])

\* C28: after a blink_eyes call that blinked, every eyelid channel of the rig
\* is at its default angle and last_blink_time is the time of the call, also
\* when a write of the blink raised.
C28_BlinkCompletes ==
    blink_op.blinked => (LidsAtDefault /\ last_blink_time = blink_op.now)

----------------------------------------------------------------------------
(* Claims about the tracker between sessions *)

\* The session s is over: run_voice_assistant went through its stop path and
\* the session's monitor_speech_end thread has ended.
SessionOver(s) == sess[s].pc = "stopped" /\ sess[s].wd = "exit"

\* C29: once a session is over the tracker is as reset() leaves it (empty
\* window, openings 0, silence count 0), so that the first chunk of the next
\* session is processed with nothing of the session before.
C29_ResetBetweenSessions ==
    \A s \in SessIds :
       SessionOver(s) => audio_mouth_controller = ResetController(audio_mouth_controller)

----------------------------------------------------------------------------
(* Claims about the frequency-weighted tracker *)

\* The amplitude of the chunk processed last: the newest sample of the window.
LastAmplitude(c) == c.amplitude_history[Len(c.amplitude_history)]

\* C30: process_audio_chunk_enhanced returns an opening within [0,100]
\* whichever band dominates and the viseme of that opening, and leaves the
\* tracker exactly as process_audio_chunk leaves it on the same chunk.
C30_EnhancedRefinesBase ==
    [][last_call' = "enhanced" =>
          /\ opening' \in 0..Percent(100)
          /\ LadderInterval(viseme', opening')
          /\ audio_mouth_controller'
                = ProcessAudioChunk(audio_mouth_controller,
                                    LastAmplitude(audio_mouth_controller'))]_vars

\* A chunk in which the middle band dominated had its opening raised up to
\* the bound of 100 percent, above the opening the tracker holds.
C30_Witness ==
    /\ last_call = "enhanced"
    /\ opening = Percent(100)
    /\ audio_mouth_controller.current_opening < Percent(100)
    /\ MulDiv(audio_mouth_controller.current_opening, 12, 10) > Percent(100)

\* A chunk in which the high band dominated had its opening lowered into a
\* lower viseme than the one of the opening the tracker holds.
C30_WitnessHigh ==
    /\ last_call = "enhanced"
    /\ opening < audio_mouth_controller.current_opening
    /\ viseme # get_viseme_from_opening(audio_mouth_controller.current_opening)

----------------------------------------------------------------------------
(* Claims about the watchdog's ramp *)

\* The step is one of the thread monitor_speech_end of the session s.
WatchdogMoves(s) == sess'[s].wd # sess[s].wd \/ sess'[s].wn # sess[s].wn

\* C31: the writes of the watchdog's ramp are the interpolated angles 1 to 10
\* between the angle of the tracked jaw position and the closed angle, each
\* no farther from the closed angle than the one before, the tenth being the
\* closed angle; the closed angle is held only after the tenth, and the
\* watchdog sets jaw_position to 0 only after all of them.
C31_ClosingRamp ==
    [][\A s \in SessIds :
          LET from   == sess[s].wd_from
              target == sess[s].wd_target
              i      == sess[s].wn
          IN
          /\ (sess[s].wd = "ramp" /\ WatchdogMoves(s))
                => /\ last_write'.by = "watchdog"
                   /\ last_write'.ch = JAW_CHANNEL
                   /\ i < steps
                   /\ jaw_position' = jaw_position
                   /\ last_write'.outcome = "ok"
                         => /\ servo'[JAW_CHANNEL] = clamp_angle(RampAngle(from, target, i))
                            /\ Between(clamp_angle(IF i = 0 THEN from
                                                   ELSE RampAngle(from, target, i - 1)),
                                       servo'[JAW_CHANNEL], clamp_angle(target))
                            /\ (i + 1 = steps) = (sess'[s].wd = "hold")
                            /\ i + 1 = steps => servo'[JAW_CHANNEL] = clamp_angle(target)
                            /\ i + 1 < steps => sess'[s].wd = "ramp" /\ sess'[s].wn = i + 1
          /\ (sess'[s].wd = "hold" /\ sess[s].wd # "hold")
                => sess[s].wd = "ramp" /\ i = steps - 1
          /\ (sess[s].wd \in {"ramp", "hold"} /\ WatchdogMoves(s)
                /\ jaw_position' # jaw_position)
                => /\ sess[s].wd = "hold"
                   /\ i = hold_writes
                   /\ jaw_position' = 0]_vars

\* The ramp has made its ten writes from an open jaw: the jaw is at the
\* closed angle and jaw_position is not yet 0.
C31_Witness ==
    \E s \in SessIds :
       /\ sess[s].wd = "hold"
       /\ sess[s].wn = 0
       /\ last_write.by = "watchdog"
       /\ servo[JAW_CHANNEL] = clamp_angle(sess[s].wd_target)
       /\ jaw_position > 0

----------------------------------------------------------------------------
(* Claims about sessions *)

\* The session s is in the wait loop of run_voice_assistant, its audio tasks
\* running.
SessionRunning(s) == sess[s].pc = "running"

\* C33: a start command while is_running is set starts nothing, and no two
\* sessions are ever running at once, however start and stop commands
\* follow one another.
C33_OneSession ==
    [][/\ (commands' # commands /\ is_running /\ is_running') => sess' = sess
       /\ \A s, t \in SessIds :
             (s # t) => ~(SessionRunning(s)' /\ SessionRunning(t)')]_vars

\* ---------------------------------------------------------------------
\* C34: at most one camera handle is open at any time, and at most one face
\* loop thread exists: the handles open are exactly the one of the current
\* tracker, if it has its camera open, so a camera start_face_tracking opened
\* has been released before another is opened and once tracking is stopped.
C34_OneCamera ==
    /\ open_cameras = (IF face_tracker = "open" THEN 1 ELSE 0)
    /\ open_cameras <= 1

\* ---------------------------------------------------------------------
\* C35: the servo-available flag never goes from unavailable to available:
\* it is decided at startup and afterwards only changes from available to
\* unavailable.
C35_AvailabilityMonotone ==
    [][SERVO_AVAILABLE' => SERVO_AVAILABLE]_vars

\* A jaw write lost the board and the flag, set at startup, is now cleared.
C35_Witness ==
    /\ ~SERVO_AVAILABLE
    /\ last_write.ch = JAW_CHANNEL
    /\ last_write.outcome = "disconnected"

\* ---------------------------------------------------------------------
\* C36: a watchdog declares the speech ended at most once per burst of
\* speech: once one has fired, none fires (and so none starts a closing
\* ramp) until an audio chunk with an opening above 3 has set is_speaking
\* again.
C36_OneFirePerBurst ==
    [][\A s \in SessIds :
          (sess[s].wd = "check" /\ sess'[s].wd = "fired") => ~fired_since_speech]_vars

----------------------------------------------------------------------------
(* Claims about the control path and the settings document *)

\* The command the step took off the queue, and the message it came from:
\* the message received at the same place in the order.
CommandTaken == handled' # handled

TakenCommand == handled'[Len(handled')]

TakenMessage == received[Len(handled')]

\* The document holds these settings: what load_settings would have to
\* return for it.
MergedOverDefaults(document, st) ==
    IF "exists" \in DOMAIN document
    THEN st = DEFAULT_SETTINGS
    ELSE /\ DOMAIN st = DOMAIN DEFAULT_SETTINGS \cup DOMAIN document
         /\ \A k \in DOMAIN document : st[k] = document[k]
         /\ \A k \in DOMAIN DEFAULT_SETTINGS \ DOMAIN document :
               st[k] = DEFAULT_SETTINGS[k]

\* No command that assigns a setting has been handled.
NothingSaved == \A i \in 1..Len(handled) : handled[i].action \notin SettingActions

C37_TestReachesChannel ==
    [][(/\ CommandTaken
        /\ TakenMessage.action = "test_eye_servo"
        /\ TakenMessage.channel \in 0..7
        /\ SERVO_AVAILABLE
        /\ write_failures' = write_failures)
          => /\ last_write' # last_write
             /\ last_write'.ch = TakenMessage.channel
             /\ servo'[TakenMessage.channel] = clamp_angle(Deg(TakenMessage.angle))]_vars

\* C38: the commands are handled in the order they were received, each
\* once: the handled commands followed by the queue are the received
\* messages in order; and get_control_command returns None only with the
\* queue empty.
C38_FifoExactlyOnce ==
    /\ [](handled \o mouth_queue = [i \in 1..Len(received) |-> Queued(received[i])])
    /\ [][(command_loop'.got = "none" /\ command_loop.got # "none")
             => mouth_queue = <<>> /\ mouth_queue' = <<>> /\ handled' = handled]_vars

\* Three messages were received, two of them handled, in order, with an
\* empty poll before the third arrived.
C38_Witness ==
    /\ Len(received) = 3
    /\ Len(handled) = 2
    /\ handled[1].action # handled[2].action
    /\ handled[1] = Queued(received[1])
    /\ handled[2] = Queued(received[2])
    /\ Len(mouth_queue) = 1
    /\ command_loop.got = "none"

\* This step writes a servo for an eye command taken off the queue, or for
\* a sweep in progress.
ManualEyeWrite ==
    /\ last_write' # last_write
    /\ \/ command_loop.pc = "sweep"
       \/ CommandTaken /\ TakenCommand.action \in {"test_eye_servo", "center_all_eyes"}

\* C39: the manual eye-servo commands write only channels 0..7, never the
\* jaw channel; a command that names a channel outside 0..7 causes no write.
C39_EyeCommandsKeepOffJaw ==
    [][/\ ManualEyeWrite => \A ch \in Channels \ 0..7 : servo'[ch] = servo[ch]
       /\ ManualEyeWrite => last_write'.ch \in 0..7
       /\ (/\ CommandTaken
           /\ TakenMessage.action \in {"test_eye_servo", "sweep_eye_servo"}
           /\ TakenMessage.channel \notin 0..7)
             => /\ last_write' = last_write
                /\ servo' = servo
                /\ command_loop'.pc = "poll"]_vars


====
